---- MODULE Spec2Model ----
(***************************************************************************)
(* A model of gbj_pythonlib_sw: blynk.py, the BlynkProtocol client, and     *)
(* timer.py, the Timer and its threads (at the end of the module).  Bytes   *)
(* are naturals 0..255, byte strings are sequences of bytes, Python text    *)
(* (str) is a sequence of Unicode code points.  Every operation of the      *)
(* class is one action; process() with its decode loop, the handlers it     *)
(* calls and the frames it writes is one step.                              *)
(***************************************************************************)
EXTENDS Integers, Sequences, FiniteSets, TLC

(***************************************************************************)
(* Module constants: class Msg and class Status.                            *)
(***************************************************************************)
RSP == 0
LOGIN == 2
PING == 6
TWEET == 12
EMAIL == 13
NOTIFY == 14
BRIDGE == 15
HW_SYNC == 16
INTERNAL == 17
PROPERTY == 19
HW == 20
HW_LOGIN == 29
EVENT_LOG == 64

SUCCESS == 200
INVALID_TOKEN == 9
DISCONNECTED == 0
CONNECTING == 1
CONNECTED == 2

\* The largest message id, 0xFFFF in _send.
MaxMsgId == 65535

(***************************************************************************)
(* Bounds of the model.                                                     *)
(***************************************************************************)
\* heartbeat keyword argument of the constructor, in seconds
HeartbeatSec == 1
\* buffin keyword argument of the constructor, in bytes
Buffin == 8
\* connect() calls (sockets opened) in one behaviour
MaxSessions == 1
\* clock readings later than this are not explored
MaxTicks == 1
\* bytes in flight from the server to the client
MaxWire == 24
\* frames the server writes in one behaviour
MaxFrames == 2
\* messages given a fresh id in one session
MaxFresh == 4
\* messages given a fresh id in one session where the ids are followed
\* through their wrap
MaxSeq == 65537

(***************************************************************************)
(* Text.  A str is a sequence of code points; the literals of the source.   *)
(***************************************************************************)
S_vw == <<118, 119>>
S_vr == <<118, 114>>
S_ver == <<118, 101, 114>>
S_hbeat == <<104, 45, 98, 101, 97, 116>>
S_buffin == <<98, 117, 102, 102, 45, 105, 110>>
S_dev == <<100, 101, 118>>
S_python == <<112, 121, 116, 104, 111, 110>>
S_connected == <<99, 111, 110, 110, 101, 99, 116, 101, 100>>
S_disconnected == <<100, 105, 115>> \o S_connected
S_V == <<86>>
S_Vstar == <<86, 42>>
S_readV == <<114, 101, 97, 100, 86>>
S_readVstar == <<114, 101, 97, 100, 86, 42>>
S_int == <<105, 110, 116, 95>>
\* BlynkProtocol.VERSION, '0.2.0'
VERSION == <<48, 46, 50, 46, 48>>
\* the auth argument of the constructor
Auth == <<116, 107>>

\* A Python value passed to _send: an int or a str.
PyInt(n) == [t |-> "int", v |-> n]
PyStr(s) == [t |-> "str", v |-> s]

RECURSIVE Digits(_)
Digits(n) == IF n < 10 THEN <<48 + n>> ELSE Digits(n \div 10) \o <<48 + (n % 10)>>

\* str(x) of an int or a str
Str(x) == IF x.t = "int"
          THEN (IF x.v < 0 THEN <<45>> \o Digits(0 - x.v) ELSE Digits(x.v))
          ELSE x.v

\* sep.join(parts) for sequences (the first joins without the separator)
RECURSIVE JoinNoSeparator(_, _)
JoinNoSeparator(parts, sep) ==
    IF parts = <<>> THEN <<>> ELSE parts[1] \o JoinNoSeparator(Tail(parts), sep)
RECURSIVE Join(_, _)
Join(parts, sep) ==
    IF parts = <<>> THEN <<>>
    ELSE IF Len(parts) = 1 THEN parts[1]
    ELSE parts[1] \o sep \o Join(Tail(parts), sep)

\* data.split(sep) for a one-element separator: always at least one part
RECURSIVE Split(_, _)
Split(data, sep) ==
    IF \A k \in 1..Len(data) : data[k] # sep THEN <<data>>
    ELSE LET k == CHOOSE j \in 1..Len(data) :
                      data[j] = sep /\ \A m \in 1..(j - 1) : data[m] # sep
         IN  <<SubSeq(data, 1, k - 1)>> \o Split(SubSeq(data, k + 1, Len(data)), sep)

(***************************************************************************)
(* UTF-8, as str.encode('utf8') and bytes.decode('utf8') do it (strict).    *)
(***************************************************************************)
IsSurrogate(c) == c >= 55296 /\ c <= 57343

Utf8EncodeChar(c) ==
    IF c < 128 THEN <<c>>
    ELSE IF c < 2048 THEN <<192 + (c \div 64), 128 + (c % 64)>>
    ELSE IF c < 65536
         THEN <<224 + (c \div 4096), 128 + ((c \div 64) % 64), 128 + (c % 64)>>
    ELSE <<240 + (c \div 262144), 128 + ((c \div 4096) % 64),
           128 + ((c \div 64) % 64), 128 + (c % 64)>>

\* [ok, b]: ok is FALSE for a lone surrogate (UnicodeEncodeError)
RECURSIVE Utf8Encode(_)
Utf8Encode(s) ==
    IF s = <<>> THEN [ok |-> TRUE, b |-> <<>>]
    ELSE IF IsSurrogate(s[1]) THEN [ok |-> FALSE, b |-> <<>>]
    ELSE LET r == Utf8Encode(Tail(s))
         IN  [ok |-> r.ok, b |-> Utf8EncodeChar(s[1]) \o r.b]

IsCont(b) == b >= 128 /\ b <= 191

\* [ok, s]: ok is FALSE for an invalid byte sequence (UnicodeDecodeError)
RECURSIVE Utf8Decode(_)
Utf8Decode(b) ==
    IF b = <<>> THEN [ok |-> TRUE, s |-> <<>>]
    ELSE LET b1 == b[1]
             n  == IF b1 < 128 THEN 1
                   ELSE IF b1 >= 194 /\ b1 <= 223 THEN 2
                   ELSE IF b1 >= 224 /\ b1 <= 239 THEN 3
                   ELSE IF b1 >= 240 /\ b1 <= 244 THEN 4
                   ELSE 0
         IN  IF n = 0 \/ Len(b) < n \/ \E k \in 2..n : ~IsCont(b[k])
             THEN [ok |-> FALSE, s |-> <<>>]
             ELSE LET c == IF n = 1 THEN b1
                           ELSE IF n = 2 THEN (b1 - 192) * 64 + (b[2] - 128)
                           ELSE IF n = 3
                                THEN (b1 - 224) * 4096 + (b[2] - 128) * 64 + (b[3] - 128)
                           ELSE (b1 - 240) * 262144 + (b[2] - 128) * 4096
                                + (b[3] - 128) * 64 + (b[4] - 128)
                      bad == \/ n = 3 /\ (c < 2048 \/ IsSurrogate(c))
                             \/ n = 4 /\ (c < 65536 \/ c > 1114111)
                      r == Utf8Decode(SubSeq(b, n + 1, Len(b)))
                  IN  IF bad THEN [ok |-> FALSE, s |-> <<>>]
                      ELSE [ok |-> r.ok, s |-> <<c>> \o r.s]

\* list(map(lambda x: x.decode('utf8'), parts))
RECURSIVE DecodeAll(_)
DecodeAll(parts) ==
    IF parts = <<>> THEN [ok |-> TRUE, s |-> <<>>]
    ELSE LET d == Utf8Decode(parts[1])
             r == DecodeAll(Tail(parts))
         IN  [ok |-> d.ok /\ r.ok, s |-> <<d.s>> \o r.s]

(***************************************************************************)
(* struct.pack("!BHH", ...) and struct.unpack("!BHH", ...): one byte and    *)
(* two big-endian unsigned 16-bit integers.                                 *)
(***************************************************************************)
\* [ok, b]: ok is FALSE when a value is out of range (struct.error)
Pack(cmd, id, dlen) ==
    IF cmd < 0 \/ cmd > 255 \/ id < 0 \/ id > 65535 \/ dlen < 0 \/ dlen > 65535
    THEN [ok |-> FALSE, b |-> <<>>]
    ELSE [ok |-> TRUE,
          b |-> <<cmd, id \div 256, id % 256, dlen \div 256, dlen % 256>>]

Unpack(b) == [cmd |-> b[1], i |-> b[2] * 256 + b[3], dlen |-> b[4] * 256 + b[5]]


\* The bytes _send builds from a command, an id and its arguments
\* (blynk.py lines 143-150). [ok, b, err]
Encode(cmd, id, args) ==
    LET enc  == IF cmd = RSP THEN [ok |-> TRUE, b |-> <<>>]
                ELSE Utf8Encode(Join([k \in 1..Len(args) |-> Str(args[k])], <<0>>))
        dlen == IF cmd = RSP THEN args[1].v ELSE Len(enc.b)
        hdr  == Pack(cmd, id, dlen)
    IN  IF ~enc.ok THEN [ok |-> FALSE, b |-> <<>>, err |-> "UnicodeEncodeError"]
        ELSE IF ~hdr.ok THEN [ok |-> FALSE, b |-> <<>>, err |-> "struct.error"]
        ELSE [ok |-> TRUE, b |-> hdr.b \o enc.b, err |-> "none"]

(***************************************************************************)
(* State.                                                                   *)
(***************************************************************************)
VARIABLES
    \* fields of the BlynkProtocol object
    state, msg_id, lastRecv, lastSend, lastPing, bin, callbacks, conn,
    \* the world: the clock _gettime() reads, whether the socket conn is
    \* connected, the bytes in flight to it, sockets opened, frames the
    \* server wrote, clock advances so far
    clock, up, inq, nsock, nframes, nticks,
    \* the last step: its name, what it did in order (frames consumed and
    \* routed, handler calls, frames written or lost in a failed write, log
    \* records), the exception that left it, the bytes run() passed to
    \* process()
    op, trace, exc, rx,
    \* history: messages given a fresh id since connect(), the clock when
    \* bytes last arrived from the transport, calls of the "connected" and
    \* of the "disconnected" handler since connect(), whether the login of
    \* this session was rejected
    nfresh, lastArrival, nconnected, ndisconnected, rejected,
    \* timer.py: the fields of the Timer object; the threading.Timer threads
    \* it created, in the order of creation, each with its position in
    \* _run_callback; the callback invocations so far, in order; the count
    \* argument the Timer was created with
    timer, threads, calls, shots,
    \* trigger.py: the fields of the Trigger object; the last run(value):
    \* its argument, the value remembered before it, what it returned and
    \* the callbacks it called
    trigger, trun,
    \* statfilter.py: the fields of the StatFilterRunning object; the last
    \* call: its name, its argument, what it returned, the exception
    sfilter, fres

objVars == <<state, msg_id, lastRecv, lastSend, lastPing, bin, callbacks, conn>>
envVars == <<clock, up, inq, nsock, nframes, nticks>>
obsVars == <<op, trace, exc, rx>>
histVars == <<nfresh, lastArrival, nconnected, ndisconnected, rejected>>
timerVars == <<timer, threads, calls, shots>>
clientVars == <<objVars, envVars, obsVars, histVars>>
triggerVars == <<trigger, trun>>
filterVars == <<sfilter, fres>>
vars == <<clientVars, timerVars, triggerVars, filterVars>>

\* an attribute that connect() has not created yet
NoAttr == 0 - 1

\* Python's None where the code compares a number with it (the count of a
\* Timer, the remembered value of a Trigger, a slot of a data buffer)
None == 0 - 1
Abs(x) == IF x < 0 THEN 0 - x ELSE x
\* Timer.__init__ (lines 137-164) with the keyword argument count (None when
\* it is not given): abs(int(count)), and a count of 1 clears _repeate.
\* A prescaler is [factor, counter, callback].
Timer(count) ==
    [ callback |-> "callback",
      prescalers |-> <<>>,
      count |-> count,
      stopping |-> FALSE,
      repeate |-> ~(count = 1) ]
\* _send called without the id keyword
NoId == 0 - 1

\* self.heartbeat and self.buffin, set by __init__
heartbeat == HeartbeatSec * 1000
buffin == Buffin

\* line 266: the states in which process() does anything (the first waits
\* for the login to be accepted)
LiveWhenConnected == {CONNECTED}
Live == {CONNECTING, CONNECTED}

\* The object, the clock and the record of the running operation, as one
\* value that the methods below transform.
Self ==
    [state |-> state, msg_id |-> msg_id, lastRecv |-> lastRecv,
     lastSend |-> lastSend, lastPing |-> lastPing, bin |-> bin,
     callbacks |-> callbacks, conn |-> conn, up |-> up, clock |-> clock,
     nfresh |-> nfresh, trace |-> <<>>, exc |-> "none"]

Raise(s, e) == [s EXCEPT !.exc = e]
Note(s, ev) == [s EXCEPT !.trace = Append(@, ev)]

(***************************************************************************)
(* Handlers.  A registered callable is described by how many positional     *)
(* arguments it takes, whether it takes the ping keyword, what its body     *)
(* calls on the client and how its body ends.                               *)
(***************************************************************************)
Handler(arity, kw, act, body) ==
    [arity |-> arity, kw |-> kw, act |-> act, body |-> body]

\* Python binds the call's arguments to the parameters, or raises TypeError
Binds(h, args, kwargs) == h.arity = Len(args) /\ (kwargs # <<>> => h.kw)

(***************************************************************************)
(* BlynkProtocol._send and _write                                           *)
(***************************************************************************)
NextIdWrapBroken(m) == IF m + 1 > MaxMsgId THEN 0 ELSE m + 1
\* lines 140-142
NextId(m) == IF m + 1 > MaxMsgId THEN 1 ELSE m + 1

Send(s, cmd, args, id) ==
    IF id = NoId /\ s.msg_id = NoAttr THEN Raise(s, "AttributeError")
    ELSE
    LET mid == IF id # NoId THEN id ELSE s.msg_id
        s1  == IF id # NoId THEN s
               ELSE [s EXCEPT !.msg_id = NextId(@), !.nfresh = @ + 1]
        e   == Encode(cmd, mid, args)
    IN  IF ~e.ok THEN Raise(s1, e.err)
        ELSE LET s2 == [s1 EXCEPT !.lastSend = s.clock]
                 lost == [k |-> "lost", msg |-> e.b, fresh |-> (id = NoId)]
             IN  IF s.conn = 0 THEN Raise(Note(s2, lost), "AttributeError")
                 ELSE IF ~s.up THEN Raise(Note(s2, lost), "OSError")
                 ELSE Note(s2, [k |-> "send", msg |-> e.b, fresh |-> (id = NoId)])

(***************************************************************************)
(* emit, disconnect and what a handler body may call                        *)
(***************************************************************************)
RECURSIVE Emit(_, _, _, _), Disconnect(_)

\* lines 231-234
Emit(s, event, args, kwargs) ==
    IF event \notin DOMAIN s.callbacks THEN s
    ELSE LET h == s.callbacks[event]
         IN  IF ~Binds(h, args, kwargs) THEN Raise(s, "TypeError")
             ELSE LET s1 == Note(s, [k |-> "call", event |-> event, h |-> h, args |-> args,
                                     kwargs |-> kwargs, st |-> s.state])
                      s2 == IF h.act = "disconnect" THEN Disconnect(s1)
                            ELSE IF h.act = "write"
                                 THEN Send(s1, HW, <<PyStr(S_vw), PyInt(3), PyInt(1)>>, NoId)
                            ELSE s1
                  IN  IF s2.exc # "none" \/ h.body = "ok" THEN s2
                      ELSE Raise(s2, h.body)

\* lines 259-263
Disconnect(s) ==
    IF s.state = DISCONNECTED THEN s
    ELSE Emit([s EXCEPT !.state = DISCONNECTED], S_disconnected, <<>>, <<>>)


(***************************************************************************)
(* BlynkProtocol.process                                                    *)
(***************************************************************************)
\* lines 297-308: the info frame, then the "connected" handler, called with
\* ping=dt and, if that raises TypeError, once more without arguments
Connected(s, dt) ==
    LET s1 == Send(s, INTERNAL,
                   <<PyStr(S_ver), PyStr(VERSION), PyStr(S_hbeat),
                     PyInt(heartbeat \div 1000), PyStr(S_buffin), PyInt(buffin),
                     PyStr(S_dev), PyStr(S_python)>>, NoId)
        s2 == Emit(s1, S_connected, <<>>, <<<<"ping", dt>>>>)
    IN  IF s1.exc # "none" THEN s1
        ELSE IF s2.exc = "TypeError"
             THEN Emit([s2 EXCEPT !.exc = "none"], S_connected, <<>>, <<>>)
        ELSE s2

\* lines 326-339: what is done with a decoded frame. [s, ret]: ret is TRUE
\* when process returns instead of looping
Route(s, cmd, i, args) ==
    IF cmd = PING
    THEN [s |-> Send(s, RSP, <<PyInt(SUCCESS)>>, i), ret |-> FALSE]
    ELSE IF cmd \in {HW, BRIDGE}
    THEN IF args[1] = S_vw
         THEN IF Len(args) < 2 THEN [s |-> Raise(s, "IndexError"), ret |-> FALSE]
              ELSE LET vals == SubSeq(args, 3, Len(args))
                       s1 == Emit(s, S_V \o args[2], <<vals>>, <<>>)
                   IN  [s |-> IF s1.exc # "none" THEN s1
                              ELSE Emit(s1, S_Vstar, <<args[2], vals>>, <<>>),
                        ret |-> FALSE]
         ELSE IF args[1] = S_vr
         THEN IF Len(args) < 2 THEN [s |-> Raise(s, "IndexError"), ret |-> FALSE]
              ELSE LET s1 == Emit(s, S_readV \o args[2], <<>>, <<>>)
                   IN  [s |-> IF s1.exc # "none" THEN s1
                              ELSE Emit(s1, S_readVstar, <<args[2]>>, <<>>),
                        ret |-> FALSE]
         ELSE [s |-> s, ret |-> FALSE]
    ELSE IF cmd = INTERNAL
    THEN IF Len(args) < 2 THEN [s |-> Raise(s, "IndexError"), ret |-> FALSE]
         ELSE [s |-> Emit(s, S_int \o args[2], <<SubSeq(args, 3, Len(args))>>, <<>>),
               ret |-> FALSE]
    ELSE [s |-> Disconnect(Note(s, [k |-> "log", level |-> "error",
                                    text |-> "Unexpected command"])),
          ret |-> TRUE]

\* line 293: the reply to the login is awaited and this is it (the first
\* takes any Response for it)
IsLoginReplyAnyId(s, h) == s.state = CONNECTING
IsLoginReply(s, h) == s.state = CONNECTING /\ h.i = 1

\* line 294: the status the reply carries in its length field
LoginAcceptedUnlessInvalidToken(h) == h.dlen # INVALID_TOKEN
LoginAccepted(h) == h.dlen = SUCCESS

\* line 317: the frame's payload has not arrived yet (the first waits for
\* one byte more than the payload)
IncompleteOrJustWhole(b, dlen) == Len(b) <= 5 + dlen
Incomplete(b, dlen) == Len(b) < 5 + dlen

\* line 314: the frame is too big for the input buffer (the first allows
\* twice the buffer)
TooBigAboveTwice(dlen) == dlen >= 2 * buffin
\* (this one allows a payload of buffin bytes)
TooBigAbove(dlen) == dlen > buffin
TooBig(dlen) == dlen >= buffin

\* line 283: the header carries sequence id 0 (the first lets a Response
\* with id 0 pass)
IdZeroUnlessResponse(h) == h.i = 0 /\ h.cmd # RSP
IdZero(h) == h.i = 0

\* lines 280-339: the decode loop
RECURSIVE Loop(_, _)
Loop(s, now) ==
    IF Len(s.bin) < 5 THEN s
    ELSE
    LET h == Unpack(SubSeq(s.bin, 1, 5))
    IN  IF IdZero(h) THEN Disconnect(s)
        ELSE
        LET s1 == [s EXCEPT !.lastRecv = now]
        IN  IF h.cmd = RSP
            THEN LET s2 == Note([s1 EXCEPT !.bin = SubSeq(@, 6, Len(@))],
                                [k |-> "frame", cmd |-> h.cmd, i |-> h.i,
                                 dlen |-> h.dlen, st |-> s.state])
                 IN  IF IsLoginReply(s2, h)
                     THEN IF LoginAccepted(h)
                          THEN LET s3 == Connected([s2 EXCEPT !.state = CONNECTED],
                                                   now - s2.lastSend)
                               IN  IF s3.exc # "none" THEN s3 ELSE Loop(s3, now)
                          ELSE Disconnect(
                                 IF h.dlen = INVALID_TOKEN
                                 THEN Note(s2, [k |-> "log", level |-> "critical",
                                                text |-> "Invalid auth token"])
                                 ELSE s2)
                     ELSE Loop(s2, now)
            ELSE IF TooBig(h.dlen)
                 THEN Disconnect(Note(s1, [k |-> "log", level |-> "error",
                                           text |-> "Command too big"]))
            ELSE IF Incomplete(s1.bin, h.dlen) THEN s1
            ELSE
            LET data == SubSeq(s1.bin, 6, 5 + h.dlen)
                s2   == Note([s1 EXCEPT !.bin = SubSeq(@, 6 + h.dlen, Len(@))],
                             [k |-> "frame", cmd |-> h.cmd, i |-> h.i,
                              dlen |-> h.dlen, st |-> s.state])
                d    == DecodeAll(Split(data, 0))
            IN  IF ~d.ok THEN Raise(s2, "UnicodeDecodeError")
                ELSE LET r == Route(Note(s2, [k |-> "route", cmd |-> h.cmd,
                                              i |-> h.i, args |-> d.s,
                                              st |-> s2.state]),
                                    h.cmd, h.i, d.s)
                     IN  IF r.s.exc # "none" \/ r.ret THEN r.s ELSE Loop(r.s, now)

\* line 269: nothing was received for more than one and a half heartbeats
\* (the first waits for more than two)
TimedOutAfterTwoBeats(s, now) == now - s.lastRecv > 2 * heartbeat
TimedOut(s, now) == now - s.lastRecv > heartbeat + (heartbeat \div 2)

\* lines 271-275: a ping is due (the first does not look at the last ping)
PingDueWithoutPause(s, now) ==
    \/ now - s.lastSend > heartbeat
    \/ now - s.lastRecv > heartbeat
PingDue(s, now) ==
    /\ now - s.lastPing > heartbeat \div 10
    /\ \/ now - s.lastSend > heartbeat
       \/ now - s.lastRecv > heartbeat

\* line 279: the bytes read join the pending buffer at its end (the first
\* puts them in front)
BufferedInFront(b, data) == data \o b
Buffered(b, data) == b \o data

\* lines 266-267: not connecting and not connected, process returns at once
\* (the first calls the "disconnected" handler again, the second sends a
\* login)
IdleNotifies(s) == Emit(s, S_disconnected, <<>>, <<>>)
IdleReconnects(s) ==
    Send([s EXCEPT !.msg_id = 1, !.state = CONNECTING], HW_LOGIN, <<PyStr(Auth)>>, NoId)
Idle(s) == s

\* lines 265-339
Process(s, data) ==
    IF s.state \notin Live THEN Idle(s)
    ELSE
    LET now == s.clock
    IN  IF TimedOut(s, now) THEN Disconnect(s)
        ELSE
        LET s1 == IF PingDue(s, now)
                  THEN LET p == Send(s, PING, <<>>, NoId)
                       IN  IF p.exc # "none" THEN p ELSE [p EXCEPT !.lastPing = now]
                  ELSE s
        IN  IF s1.exc # "none" THEN s1
            ELSE Loop(IF Len(data) > 0 THEN [s1 EXCEPT !.bin = Buffered(@, data)]
                      ELSE s1, now)


(***************************************************************************)
(* trigger.py: class Trigger.  Comparison values and thresholds are         *)
(* integers here; a callback is a name, and each call of it returns or      *)
(* raises.                                                                  *)
(***************************************************************************)
MODE == {"UPPER", "UPPER1", "LOWER", "LOWER1"}

\* Trigger.__init__ (lines 115-136)
Trigger(threshold, callback, mode) ==
    [ threshold |-> Abs(threshold),
      callbacks |-> callback,
      mode |-> IF mode \in MODE THEN mode ELSE "UPPER",
      value |-> None ]

\* _run_upper, _run_upper1, _run_lower, _run_lower1 (lines 255-275) before
\* the decorator, and the choice among them that run() makes (line 279)
RunFlag(t, value) ==
    CASE t.mode = "UPPER" -> value >= t.threshold
      [] t.mode = "UPPER1" -> (t.value = None \/ t.value < t.threshold)
                              /\ value >= t.threshold
      [] t.mode = "LOWER" -> value <= t.threshold
      [] t.mode = "LOWER1" -> (t.value = None \/ t.value > t.threshold)
                              /\ value <= t.threshold

\* (remembers the value only when the callbacks are to run)
TriggerRunRemembersHits(t, value, outs) ==
    LET runflag == RunFlag(t, value)
    IN  [ t |-> IF runflag THEN [t EXCEPT !.value = value] ELSE t,
          ret |-> runflag,
          calls |-> IF runflag
                    THEN [k \in 1..Len(t.callbacks) |->
                            [callback |-> t.callbacks[k], value |-> value,
                             threshold |-> t.threshold, ok |-> outs[k]]]
                    ELSE <<>> ]

\* run(value) through _EXECUTE (lines 231-252): the flag is evaluated, the
\* value is remembered, and then every callback is called, each in its own
\* try; outs[k] says whether the k-th callback returns.
TriggerRun(t, value, outs) ==
    LET runflag == RunFlag(t, value)
    IN  [ t |-> [t EXCEPT !.value = value],
          ret |-> runflag,
          calls |-> IF runflag
                    THEN [k \in 1..Len(t.callbacks) |->
                            [callback |-> t.callbacks[k], value |-> value,
                             threshold |-> t.threshold, ok |-> outs[k]]]
                    ELSE <<>> ]

\* No run yet
NoRun ==
    [value |-> None, ret |-> FALSE, calls |-> <<>>,
     \* some run so far ran the callbacks; a run since the last such run was
     \* given a value on the far side of the threshold; this run ran the
     \* callbacks and an earlier one did
     fired |-> FALSE, crossed |-> FALSE, again |-> FALSE]

TriggerNew ==
    /\ trigger = Trigger(1, <<"f">>, "UPPER")
    /\ trun = NoRun

(***************************************************************************)
(* statfilter.py: classes StatFilter and StatFilterRunning.  A sample       *)
(* value is a number of halves (3 is 1.5), so that rounding has something   *)
(* to round; a slot of the buffer holds a value or None.                    *)
(***************************************************************************)
\* round(value, ndigits) of Python 3 on a number of halves: to the nearest
\* integer, a tie to the even one, when ndigits is None or 0; one decimal
\* place or more keeps a half as it is.
Round(value, ndigits) ==
    IF ndigits # None /\ ndigits > 0 THEN value
    ELSE IF value % 2 = 0 THEN value
    ELSE IF ((value - 1) \div 2) % 2 = 0 THEN value - 1 ELSE value + 1

\* StatFilter.result (lines 131-137): round(None, ...) raises TypeError and
\* the value is returned as it is
Result(f, value) == IF value = None THEN None ELSE Round(value, f.decimals)

\* filter (lines 103-113)
Filter(f, value) ==
    IF value = None THEN None
    ELSE IF f.value_max # None /\ value > f.value_max THEN None
    ELSE IF f.value_min # None /\ value < f.value_min THEN None
    ELSE value

\* get_buffer_len (line 201) and get_readings (lines 242-245)
GetBufferLen(f) == Len(f.buffer)
GetReadings(f) ==
    LET nones == {i \in 1..Len(f.buffer) : f.buffer[i] = None}
    IN  IF nones = {} THEN GetBufferLen(f)
        ELSE (CHOOSE i \in nones : \A j \in nones : i <= j) - 1

\* abs(int(buffer_len)) | 1
OrOne(n) == IF n % 2 = 0 THEN n + 1 ELSE n

\* The loop of lines 176-177: pop(i) for i = 0, 1, ..., d - 1, where pop
\* raises IndexError when the list has no index i any more.
RECURSIVE PopLoop(_, _, _)
PopLoop(buffer, i, d) ==
    IF i >= d THEN [buffer |-> buffer, exc |-> "none"]
    ELSE IF i >= Len(buffer) THEN [buffer |-> buffer, exc |-> "IndexError"]
    ELSE PopLoop(SubSeq(buffer, 1, i) \o SubSeq(buffer, i + 2, Len(buffer)),
                 i + 1, d)

\* set_buffer (lines 169-177)
SetBuffer(f, n) ==
    LET buffer_len == OrOne(Abs(n))
        cur == GetBufferLen(f)
    IN  IF cur < buffer_len
        THEN [f |-> [f EXCEPT !.buffer = @ \o [i \in 1..(buffer_len - cur) |-> None]],
              exc |-> "none"]
        ELSE IF cur > buffer_len
        THEN LET r == PopLoop(f.buffer, 0, cur - buffer_len)
             IN  [f |-> [f EXCEPT !.buffer = r.buffer], exc |-> r.exc]
        ELSE [f |-> f, exc |-> "none"]

\* StatFilterRunning.__init__ (lines 369-378) and StatFilter.__init__ (lines
\* 62-75): no range, an empty buffer grown by set_buffer and reset to None
StatFilterRunning(buffer_len, decimals) ==
    SetBuffer([ buffer |-> <<>>, value_max |-> None, value_min |-> None,
                decimals |-> IF decimals = None THEN None ELSE Abs(decimals) ],
              buffer_len).f

\* _register_value (lines 400-408)
RegisterValue(f, value) ==
    LET v == Filter(f, value)
        shifted == IF GetReadings(f) > 0
                   THEN [i \in 1..Len(f.buffer) |->
                           IF i = 1 THEN f.buffer[1] ELSE f.buffer[i - 1]]
                   ELSE f.buffer
    IN  IF v # None
        THEN [f |-> [f EXCEPT !.buffer = [shifted EXCEPT ![1] = v]], v |-> v]
        ELSE [f |-> f, v |-> v]

\* result_med (lines 451-455)
ResultMed(f, value) ==
    LET r == RegisterValue(f, value)
        readings == GetReadings(r.f)
        statistic == IF readings > 0 THEN r.f.buffer[readings \div 2 + 1]
                     ELSE r.v
    IN  [f |-> r.f, ret |-> Result(r.f, statistic)]

\* No call yet
NoResult == [op |-> "init", arg |-> None, ret |-> None, exc |-> "none"]

FilterNew ==
    /\ sfilter = StatFilterRunning(5, None)
    /\ fres = NoResult


(***************************************************************************)
(* Actions: one per operation of the client, and the steps of the world.   *)
(***************************************************************************)
InitClient ==
    /\ state = DISCONNECTED
    /\ callbacks = <<>>
    /\ msg_id = NoAttr /\ lastRecv = NoAttr /\ lastSend = NoAttr
    /\ lastPing = NoAttr /\ bin = <<>> /\ conn = 0
    /\ clock = 1 /\ up = FALSE /\ inq = <<>> /\ nsock = 0 /\ nframes = 0
    /\ nticks = 0
    /\ op = "init" /\ trace = <<>> /\ exc = "none" /\ rx = <<>>
    /\ nfresh = 0 /\ lastArrival = 1
    /\ nconnected = 0 /\ ndisconnected = 0 /\ rejected = FALSE

\* The client is constructed; a Timer is constructed and not started.
Init ==
    /\ InitClient
    /\ timer = Timer(None) /\ threads = <<>> /\ calls = <<>> /\ shots = None
    /\ TriggerNew /\ FilterNew

\* The calls of the handler of an event, and the frames consumed, in a trace
CallsIn(tr, event) == SelectSeq(tr, LAMBDA e : e.k = "call" /\ e.event = event)
FramesIn(tr) == SelectSeq(tr, LAMBDA e : e.k = "frame")
SentIn(tr) == SelectSeq(tr, LAMBDA e : e.k = "send")
RoutedIn(tr) == SelectSeq(tr, LAMBDA e : e.k = "route")
LogsIn(tr) == SelectSeq(tr, LAMBDA e : e.k = "log")
\* A frame consumed as the rejection of the login
IsRejection(e) ==
    e.k = "frame" /\ e.cmd = RSP /\ e.i = 1 /\ e.st = CONNECTING /\ e.dlen # SUCCESS
\* A frame consumed as the acceptance of the login
IsAcceptance(e) ==
    e.k = "frame" /\ e.cmd = RSP /\ e.i = 1 /\ e.st = CONNECTING /\ e.dlen = SUCCESS

\* The object and the record of the operation become those of s.
Commit(s, o) ==
    /\ state' = s.state /\ msg_id' = s.msg_id /\ lastRecv' = s.lastRecv
    /\ lastSend' = s.lastSend /\ lastPing' = s.lastPing /\ bin' = s.bin
    /\ callbacks' = s.callbacks /\ conn' = s.conn
    /\ nfresh' = s.nfresh
    /\ op' = o /\ trace' = s.trace /\ exc' = s.exc
    /\ UNCHANGED <<timerVars, triggerVars, filterVars>>
    /\ LET new == o = "connect" /\ state = DISCONNECTED /\ s.state = CONNECTING
       IN  /\ nconnected' = (IF new THEN 0 ELSE nconnected)
                            + Len(CallsIn(s.trace, S_connected))
           /\ ndisconnected' = (IF new THEN 0 ELSE ndisconnected)
                               + Len(CallsIn(s.trace, S_disconnected))
           /\ rejected' = \/ ~new /\ rejected
                          \/ \E k \in 1..Len(s.trace) : IsRejection(s.trace[k])

\* on(event, func), and the ON, VIRTUAL_READ and VIRTUAL_WRITE decorators
\* (the first keeps a function that is already registered under the key)
OnKeepsFirst(event, h) ==
    /\ Commit([Self EXCEPT !.callbacks = @ @@ (event :> h)], "on")
    /\ rx' = <<>>
    /\ UNCHANGED <<envVars, lastArrival>>
On(event, h) ==
    /\ Commit([Self EXCEPT !.callbacks = (event :> h) @@ @], "on")
    /\ rx' = <<>>
    /\ UNCHANGED <<envVars, lastArrival>>

\* lines 204-214 and 216-226: the decorators that build the key from a pin
VIRTUAL_READ(pin, h) == On(S_readV \o Str(pin), h)
VIRTUAL_WRITE(pin, h) == On(S_V \o Str(pin), h)

\* lines 171-179: the except clause of connect
ConnectFailed(s) ==
    Raise(Note(s, [k |-> "log", level |-> "error", text |-> "Connection failed"]),
          "ValueError")

\* lines 165-169: the session starts anew (the first keeps the buffer)
ResetKeepsBuffer(s) ==
    [s EXCEPT !.msg_id = 1, !.lastRecv = s.clock, !.lastSend = 0, !.lastPing = 0,
              !.state = CONNECTING, !.nfresh = 0]
Reset(s) ==
    [s EXCEPT !.msg_id = 1, !.lastRecv = s.clock, !.lastSend = 0, !.lastPing = 0,
              !.bin = <<>>, !.state = CONNECTING, !.nfresh = 0]

\* line 163: a session is open already and connect() returns (the first
\* goes on in Connecting state)
InSessionWhenConnected(st) == st = CONNECTED
InSession(st) == st # DISCONNECTED

\* connect(); ok: the server accepts the TCP connection; wr: the connection
\* is still there when the login is written
ConnectWith(ok, wr, maxSessions) ==
    /\ nsock < maxSessions
    /\ LET s0 == [Self EXCEPT !.conn = nsock + 1, !.up = ok /\ wr]
           s1 == Reset(s0)
           s2 == Send(s1, HW_LOGIN, <<PyStr(Auth)>>, NoId)
       IN  Commit(IF ~ok THEN ConnectFailed(s0)
                  ELSE IF InSession(state) THEN s0
                  ELSE IF s2.exc # "none" THEN ConnectFailed([s2 EXCEPT !.exc = "none"])
                  ELSE s2, "connect")
    /\ nsock' = nsock + 1 /\ up' = (ok /\ wr) /\ inq' = <<>>
    /\ rx' = <<>>
    /\ lastArrival' = clock
    /\ UNCHANGED <<clock, nframes, nticks>>

Connect(ok, maxSessions) == ConnectWith(ok, TRUE, maxSessions)

\* line 184: the most that recv(self.buffin) returns
RecvMax == IF Len(inq) < buffin THEN Len(inq) ELSE buffin

\* run(): recv of at most buffin bytes, n of them here (none when the recv
\* times out or fails), then process
Run(n) ==
    /\ n \in 0..RecvMax
    /\ LET data == IF conn = 0 \/ ~up THEN <<>> ELSE SubSeq(inq, 1, n)
       IN  /\ Commit(Process(Self, data), "run")
           /\ rx' = data
           /\ inq' = SubSeq(inq, Len(data) + 1, Len(inq))
           /\ lastArrival' = IF Len(data) > 0 THEN clock ELSE lastArrival
    /\ UNCHANGED <<clock, up, nsock, nframes, nticks>>

\* disconnect() called by the application
DisconnectCall ==
    /\ Commit(Disconnect(Self), "disconnect")
    /\ rx' = <<>>
    /\ UNCHANGED <<envVars, lastArrival>>

\* An outbound operation: one _send with a fresh id (the first does nothing
\* when no session is open)
OutboundInSession(o, cmd, args) ==
    /\ Commit(IF state = DISCONNECTED THEN Self ELSE Send(Self, cmd, args, NoId), o)
    /\ rx' = <<>>
    /\ UNCHANGED <<envVars, lastArrival>>
Outbound(o, cmd, args) ==
    /\ Commit(Send(Self, cmd, args, NoId), o)
    /\ rx' = <<>>
    /\ UNCHANGED <<envVars, lastArrival>>

\* lines 236-257
VirtualWrite(pin, val) == Outbound("virtual_write", HW, <<PyStr(S_vw), pin>> \o val)
SetProperty(pin, prop, val) == Outbound("set_property", PROPERTY, <<pin, prop>> \o val)
SyncVirtual(pins) == Outbound("sync_virtual", HW_SYNC, <<PyStr(S_vr)>> \o pins)
Notify(msg) == Outbound("notify", NOTIFY, <<msg>>)
Tweet(msg) == Outbound("tweet", TWEET, <<msg>>)
LogEventDropsDescr(event, descr) == Outbound("log_event", EVENT_LOG, <<event>>)
LogEvent(event, descr) ==
    Outbound("log_event", EVENT_LOG,
             IF descr = <<>> THEN <<event>> ELSE <<event>> \o descr)

\* The server writes the bytes of a frame to the socket.
ServerSend(f, maxFrames, maxWire) ==
    /\ conn # 0 /\ up
    /\ nframes < maxFrames
    /\ Len(inq) + Len(f) <= maxWire
    /\ inq' = inq \o f
    /\ nframes' = nframes + 1
    /\ op' = "server" /\ trace' = <<>> /\ exc' = "none" /\ rx' = <<>>
    /\ UNCHANGED <<objVars, clock, up, nsock, nticks, histVars, timerVars, triggerVars,
                 filterVars>>

\* Time passes.
Tick(d, maxTicks) ==
    /\ nticks < maxTicks
    /\ clock' = clock + d
    /\ nticks' = nticks + 1
    /\ op' = "tick" /\ trace' = <<>> /\ exc' = "none" /\ rx' = <<>>
    /\ UNCHANGED <<objVars, up, inq, nsock, nframes, histVars, timerVars, triggerVars,
                 filterVars>>

(***************************************************************************)
(* What the server may send: frames as the protocol encodes them.           *)
(***************************************************************************)
Frame(cmd, id, fields) ==
    Encode(cmd, id, [k \in 1..Len(fields) |-> PyStr(fields[k])]).b
Response(id, status) == Encode(RSP, id, <<PyInt(status)>>).b
\* A header followed by arbitrary payload bytes.
RawFrame(cmd, id, dlen, payload) == Pack(cmd, id, dlen).b \o payload

S_3 == <<51>>
S_42 == <<52, 50>>

\* def f(ping=None): ...
HKw == Handler(0, TRUE, "none", "ok")
\* def f(): ...
HPlain == Handler(0, FALSE, "none", "ok")
\* def f(ping=None): raise TypeError
HKwTypeError == Handler(0, TRUE, "none", "TypeError")
\* def f(): raise Exception
HPlainRaise == Handler(0, FALSE, "none", "Exception")
\* def f(): blynk.disconnect()
HReenter == Handler(0, FALSE, "disconnect", "ok")
\* def f(x): blynk.virtual_write(3, 1)
HOneWrite == Handler(1, FALSE, "write", "ok")
\* def f(): raise Exception, for a virtual read
HReadRaise == Handler(0, FALSE, "none", "Exception")
\* def f(x): ...
HOne == Handler(1, FALSE, "none", "ok")
\* def f(x): raise Exception
HOneRaise == Handler(1, FALSE, "none", "Exception")
\* def f(x, y): ...
HTwo == Handler(2, FALSE, "none", "ok")
\* def f(value): blynk.disconnect()
HOneDisconnect == Handler(1, FALSE, "disconnect", "ok")
\* def f(ping=None): blynk.disconnect()
HKwDisconnect == Handler(0, TRUE, "disconnect", "ok")
\* def f(ping=None): blynk.disconnect(); raise TypeError
HKwDisconnectTypeError == Handler(0, TRUE, "disconnect", "TypeError")

\* A clock advance between a tenth of a heartbeat and a heartbeat.
Step == (heartbeat \div 2) + (heartbeat \div 10)

(***************************************************************************)
(* Spec: the login handshake.                                               *)
(***************************************************************************)
HsFrames ==
    { Response(1, SUCCESS), Response(1, INVALID_TOKEN), Response(1, 0),
      Response(2, SUCCESS) }

HsRegs ==
    ({S_connected} \X {HKw, HPlain, HKwTypeError, HOne})
    \cup ({S_disconnected} \X {HPlain, HPlainRaise})

Next ==
    \/ \E r \in HsRegs : nsock = 0 /\ r[1] \notin DOMAIN callbacks /\ On(r[1], r[2])
    \/ \E ok \in BOOLEAN : Connect(ok, MaxSessions)
    \/ \E n \in {0, RecvMax} : nfresh < MaxFresh /\ Run(n)
    \/ DisconnectCall
    \/ \E f \in HsFrames : ServerSend(f, MaxFrames, MaxWire)
    \/ Tick(Step, MaxTicks)

Spec == Init /\ [][Next]_vars

Registered(event) == event \in DOMAIN callbacks
Accepted == \E k \in 1..Len(trace) : IsAcceptance(trace[k])
Rejected == \E k \in 1..Len(trace) : IsRejection(trace[k])

\* C1: when process() in Connecting state decodes a Response with
\* sequence id 1 and status 200, the state becomes Connected and the
\* registered "connected" handler is invoked exactly once, whatever its
\* signature or outcome.
C1_ConnectedFiresOnce ==
    (op = "run" /\ Accepted /\ Registered(S_connected))
        => (state = CONNECTED /\ Len(CallsIn(trace, S_connected)) = 1)

\* C2: when process() in Connecting state decodes a Response with
\* sequence id 1 and a status other than 200, the state becomes
\* Disconnected, the "connected" handler is not invoked in that session and
\* the "disconnected" handler, if registered, is invoked exactly once.
C2_LoginRejected ==
    /\ (op = "run" /\ Rejected)
           => /\ state = DISCONNECTED
              /\ Len(CallsIn(trace, S_connected)) = 0
              /\ Len(CallsIn(trace, S_disconnected))
                    = (IF Registered(S_disconnected) THEN 1 ELSE 0)
    /\ rejected
           => /\ state = DISCONNECTED
              /\ nconnected = 0
              /\ ndisconnected = (IF Registered(S_disconnected) THEN 1 ELSE 0)

\* A login rejected for an invalid token, with both handlers registered,
\* and the client run again afterwards.
C2_Witness ==
    /\ rejected /\ op = "run" /\ ~Rejected
    /\ Registered(S_disconnected) /\ Registered(S_connected)
    /\ ndisconnected = 1 /\ nticks > 0


(***************************************************************************)
(* SpecRoute: the routing of inbound frames, well formed and not.           *)
(***************************************************************************)
RtFrames ==
    { Response(1, SUCCESS),
      Frame(HW, 2, <<S_vw, S_3, S_42>>),
      Frame(BRIDGE, 3, <<S_vw, S_3>>),
      \* a virtual write without a pin
      Frame(HW, 4, <<S_vw>>),
      \* an internal message with one field
      Frame(INTERNAL, 5, <<S_ver>>),
      \* a payload that is not UTF-8
      RawFrame(HW, 6, 1, <<255>>),
      \* commands that process does not route
      Frame(NOTIFY, 7, <<S_3>>),
      RawFrame(99, 8, 1, <<255>>) }

RtRegs ==
    ({S_V \o S_3} \X {HOne, HOneRaise})
    \cup {<<S_Vstar, HTwo>>, <<S_disconnected, HPlain>>}

NextRoute ==
    \/ \E r \in RtRegs : nsock = 0 /\ r[1] \notin DOMAIN callbacks /\ On(r[1], r[2])
    \/ Connect(TRUE, MaxSessions)
    \/ \E n \in {0, RecvMax} : nfresh < MaxFresh /\ Run(n)
    \/ DisconnectCall
    \/ \E f \in RtFrames : ServerSend(f, MaxFrames, MaxWire)
    \/ Tick(Step, MaxTicks)

SpecRoute == Init /\ [][NextRoute]_vars


\* The events of a trace from event k up to the next frame consumed.
SegEnd(tr, k) ==
    IF \E j \in (k + 1)..Len(tr) : tr[j].k = "frame"
    THEN (CHOOSE j \in (k + 1)..Len(tr) :
              tr[j].k = "frame" /\ \A m \in (k + 1)..(j - 1) : tr[m].k # "frame") - 1
    ELSE Len(tr)
Segment(tr, k) == SubSeq(tr, k, SegEnd(tr, k))
\* The state of the client when the events from k to the next frame are over.
StateAfter(tr, k) == IF SegEnd(tr, k) < Len(tr) THEN tr[SegEnd(tr, k) + 1].st ELSE state
\* Event k is the last one of the step.
EndsStep(tr, k) == SegEnd(tr, k) = Len(tr)

\* A call of a handler whose body raises.
RaisingCall(e) == e.k = "call" /\ callbacks[e.event].body # "ok"

\* The buffer starts with a frame that the decode loop would consume.
HoldsFrame(b) ==
    /\ Len(b) >= 5
    /\ LET h == Unpack(SubSeq(b, 1, 5))
       IN  h.i # 0 /\ (h.cmd = RSP \/ (h.dlen < buffin /\ Len(b) >= 5 + h.dlen))

\* C4: a handler that raises while a frame is dispatched does not make
\* process() raise; the failure is contained, the wildcard handler of a
\* virtual write is still called and the frames behind it in the buffer
\* are still consumed.
C4_HandlerFailureContained ==
    (op = "run" /\ \E k \in 1..Len(trace) : RaisingCall(trace[k]))
        => /\ exc = "none"
           /\ state \in Live => ~HoldsFrame(bin)
           /\ \A k \in 1..Len(trace) :
                 (RaisingCall(trace[k]) /\ trace[k].event = S_V \o S_3
                    /\ Registered(S_Vstar))
                    => Len(CallsIn(Segment(trace, k), S_Vstar)) = 1

\* C5: whatever bytes process() is given while Connecting or Connected, it
\* returns normally; a malformed frame (a virtual write or read without a
\* pin, an internal message with fewer than two fields, a payload that is
\* not UTF-8) never makes an exception leave process() or run().
C5_MalformedFrameContained ==
    op = "run" => exc \notin {"IndexError", "UnicodeDecodeError"}

RoutedCmds == {RSP, PING, HW, BRIDGE, INTERNAL}

\* C6: a frame whose command is none of Response, Ping, Hardware, Bridge,
\* Internal forces Disconnected and is reported (an error record and the
\* "disconnected" handler); none is consumed with the connection staying
\* Connecting or Connected.
C6_UnknownCommandDisconnects ==
    \A k \in 1..Len(trace) :
        (trace[k].k = "frame" /\ trace[k].cmd \notin RoutedCmds)
            => /\ state = DISCONNECTED
               /\ \E j \in k..Len(trace) :
                     trace[j].k = "log" /\ trace[j].level = "error"
               /\ Len(CallsIn(Segment(trace, k), S_disconnected))
                     = (IF Registered(S_disconnected) THEN 1 ELSE 0)

IsVirtualWrite(e) ==
    /\ e.k = "route" /\ e.cmd \in {HW, BRIDGE}
    /\ e.args[1] = S_vw /\ Len(e.args) >= 2

\* C10: a Hardware or Bridge frame with fields ["vw", pin, v1..vn] calls the
\* handler registered under "V<pin>" with [v1..vn] and then the handler
\* registered under "V*" with (pin, [v1..vn]), each exactly once if
\* registered; with either or both unregistered the frame is consumed
\* without error, without a change of state and without an outbound frame.
C10_VirtualWriteRouting ==
    \A k \in 1..Len(trace) :
        IsVirtualWrite(trace[k]) =>
            LET pin  == trace[k].args[2]
                vals == SubSeq(trace[k].args, 3, Len(trace[k].args))
                seg  == Segment(trace, k)
                own  == CallsIn(seg, S_V \o pin)
                star == CallsIn(seg, S_Vstar)
                idx(ev) == CHOOSE j \in 1..Len(seg) :
                               seg[j].k = "call" /\ seg[j].event = ev
            IN  /\ Len(own) = (IF Registered(S_V \o pin) THEN 1 ELSE 0)
                /\ Len(star) = (IF Registered(S_Vstar) THEN 1 ELSE 0)
                /\ Len(own) = 1 => own[1].args = <<vals>>
                /\ Len(star) = 1 => star[1].args = <<pin, vals>>
                /\ (Len(own) = 1 /\ Len(star) = 1) => idx(S_V \o pin) < idx(S_Vstar)
                /\ (~Registered(S_V \o pin) \/ ~Registered(S_Vstar))
                      => /\ EndsStep(trace, k) => exc = "none"
                         /\ StateAfter(trace, k) = trace[k].st
                         /\ SentIn(seg) = <<>>


(***************************************************************************)
(* SpecBeat: the heartbeat.  Bytes arrive in pieces of any size and the     *)
(* clock advances by less than, or by exactly, one heartbeat.               *)
(***************************************************************************)
BeatFrames == { Response(1, SUCCESS), Frame(HW, 2, <<S_vw, S_3, S_42>>) }

NextBeat ==
    \/ nsock = 0 /\ ~Registered(S_disconnected) /\ On(S_disconnected, HPlain)
    \/ Connect(TRUE, MaxSessions)
    \/ \E n \in 0..RecvMax : nfresh < MaxFresh /\ Run(n)
    \/ \E f \in BeatFrames : ServerSend(f, MaxFrames, MaxWire)
    \/ \E d \in {Step, heartbeat} : Tick(d, MaxTicks + 1)

SpecBeat == Init /\ [][NextBeat]_vars

\* C3: when the client is Connected and no bytes have arrived for more than
\* one and a half heartbeats, the next process() forces Disconnected,
\* whatever the pending buffer holds (also the header of a frame whose
\* payload has not arrived); later ticks do nothing.
C3_SilenceTimesOut ==
    [][ (/\ state = CONNECTED
         /\ op' = "run" /\ rx' = <<>>
         /\ clock - lastArrival > heartbeat + (heartbeat \div 2))
           => state' = DISCONNECTED ]_vars


(***************************************************************************)
(* SpecFeed: the bytes of the server's frames reach process() one per call. *)
(***************************************************************************)
FeedData == { Frame(HW, 2, <<S_vw, S_3, S_42>>), Frame(PING, 3, <<>>),
              RawFrame(HW, 4, 1, <<255>>) }
FeedFrames == FeedData \cup { Response(1, SUCCESS) }

NextFeed ==
    \/ \E r \in {<<S_V \o S_3, HOne>>, <<S_Vstar, HTwo>>} :
          nsock = 0 /\ r[1] \notin DOMAIN callbacks /\ On(r[1], r[2])
    \/ Connect(TRUE, MaxSessions)
    \/ \E n \in {0, 1} : nfresh < MaxFresh /\ Run(n)
    \/ \E f \in FeedFrames : ServerSend(f, MaxFrames, MaxWire)
    \/ Tick(Step, MaxTicks)

SpecFeed == Init /\ [][NextFeed]_vars

IsPrefix(b, f) == Len(b) <= Len(f) /\ SubSeq(f, 1, Len(b)) = b

\* C7: a frame that is not a Response, with an id that is not zero and a
\* payload shorter than the buffer limit, fed one byte per process() call:
\* until its last byte nothing is dispatched and nothing leaves the pending
\* buffer; the call that brings the last byte dispatches it exactly once and
\* leaves the buffer empty.
C7_ByteAtATime ==
    [][ (/\ op' = "run" /\ Len(rx') = 1
         /\ state \in Live /\ ~TimedOut(Self, clock)
         /\ \E f \in FeedData : IsPrefix(bin \o rx', f))
           => IF bin \o rx' \in FeedData
              THEN Len(RoutedIn(trace')) = 1 /\ bin' = <<>>
              ELSE /\ FramesIn(trace') = <<>> /\ RoutedIn(trace') = <<>>
                   /\ bin' = bin \o rx' ]_vars


(***************************************************************************)
(* SpecCodec: the server writes what _send produces for a command, an id   *)
(* and a list of text fields, one frame at a time, and the client reads it  *)
(* back through run() and process().                                        *)
(***************************************************************************)
CodecCmds == {HW, NOTIFY, PING}
CodecIds == {1, 258, MaxMsgId}
CodecFields ==
    { <<>>, << <<>> >>, <<S_3>>, << <<233>> >>, << <<8364>>, S_3 >>,
      << <<128512>> >>, <<S_vw, S_3, S_42>>, << <<97, 0, 98>> >>,
      << S_buffin \o <<33>> >> }
CodecInputs == [cmd : CodecCmds, id : CodecIds, fields : CodecFields]

\* an input with the bytes _send(cmd, *fields, id=id) writes for it
CodecSent ==
    { [cmd |-> x.cmd, id |-> x.id, fields |-> x.fields,
       b |-> Frame(x.cmd, x.id, x.fields)] : x \in CodecInputs }

NextCodec ==
    \/ Connect(TRUE, MaxSessions)
    \/ \E n \in {0, RecvMax} : nfresh < MaxFresh /\ Run(n)
    \/ \E x \in CodecSent :
          inq = <<>> /\ bin = <<>> /\ ServerSend(x.b, MaxFrames, MaxWire)
    \/ inq = <<>> /\ bin = <<>> /\ ServerSend(Response(1, SUCCESS), MaxFrames, MaxWire)
    \/ Tick(Step, MaxTicks)

SpecCodec == Init /\ [][NextCodec]_vars

\* The call of process() that completes the bytes of x in the pending buffer
\* decodes one frame with the command, id and fields of x and consumes all
\* the 5 + len(payload) bytes.
RoundTrip(x) ==
    (/\ op' = "run" /\ state \in Live /\ ~TimedOut(Self, clock)
     /\ bin \o rx' = x.b)
      => /\ Len(FramesIn(trace')) = 1 /\ Len(RoutedIn(trace')) = 1
         /\ RoutedIn(trace')[1].cmd = x.cmd
         /\ RoutedIn(trace')[1].i = x.id
         /\ RoutedIn(trace')[1].args = x.fields
         /\ bin' = <<>>

\* a list with at least one field, no field with a NUL character, and a
\* payload shorter than the buffer limit
Framable(x) ==
    /\ x.fields # <<>>
    /\ \A k \in 1..Len(x.fields) : \A j \in 1..Len(x.fields[k]) : x.fields[k][j] # 0
    /\ Len(x.b) - 5 < buffin
FramableSent == {x \in CodecSent : Framable(x)}

\* C8 as stated: the round trip holds for every command but Response, every
\* id in 1..65535 and every list of text fields, the empty list included.
C8_RoundTripAnyFields == [][\A x \in CodecSent : RoundTrip(x)]_vars

\* C8: the round trip holds for every command but Response, every id in
\* 1..65535 and every list of at least one text field, none holding a NUL
\* character, whose payload is shorter than the buffer limit.
C8_RoundTrip == [][\A x \in FramableSent : RoundTrip(x)]_vars

C8_Witness ==
    /\ op = "run" /\ bin = <<>> /\ Len(RoutedIn(trace)) = 1
    /\ RoutedIn(trace)[1].cmd = NOTIFY /\ RoutedIn(trace)[1].i = 258
    /\ RoutedIn(trace)[1].args = << <<8364>>, S_3 >>


(***************************************************************************)
(* SpecSeq: the sequence ids, followed through the wrap at 65535.           *)
(***************************************************************************)
NextSeq ==
    \/ Connect(TRUE, MaxSessions)
    \/ nfresh < MaxSeq /\ Notify(PyStr(S_3))
    \/ nfresh < MaxFresh /\ Run(0)
    \/ nfresh < MaxFresh /\ Tick(heartbeat + 1, MaxTicks)

SpecSeq == Init /\ [][NextSeq]_vars

\* The messages of a trace that were given a fresh id, and the id a message
\* carries
FreshIn(tr) == SelectSeq(tr, LAMBDA e : e.k \in {"send", "lost"} /\ e.fresh)
IdOf(e) == Unpack(SubSeq(e.msg, 1, 5)).i

\* C9: after connect() the k-th message given a fresh id carries
\* ((k-1) mod 65535)+1: 1 for the login, one more for each next message, 1
\* again after 65535, never 0; the stored counter stays in 1..65535.
C9_SequenceIds ==
    /\ msg_id # NoAttr => msg_id \in 1..MaxMsgId
    /\ LET f == FreshIn(trace)
       IN  \A j \in 1..Len(f) :
              LET k == nfresh - (Len(f) - j)
              IN  IdOf(f[j]) = ((k - 1) % MaxMsgId) + 1 /\ IdOf(f[j]) # 0

C9_Witness ==
    /\ op = "notify" /\ nfresh = MaxMsgId + 1
    /\ Len(FreshIn(trace)) = 1 /\ IdOf(FreshIn(trace)[1]) = 1


(***************************************************************************)
(* SpecLife: the life of a connection: sessions opened and ended by the     *)
(* application, the server, the clock and the transport.                   *)
(***************************************************************************)
LifeFrames ==
    { Response(1, SUCCESS), Response(1, INVALID_TOKEN),
      \* sequence id 0
      RawFrame(HW, 0, 0, <<>>),
      \* the header of a frame too big for the buffer
      RawFrame(HW, 9, buffin, <<>>),
      \* a command that process does not route
      Frame(NOTIFY, 7, <<S_3>>) }

NextLife ==
    \/ \E h \in {HPlain, HPlainRaise, HReenter} :
          nsock = 0 /\ ~Registered(S_disconnected) /\ On(S_disconnected, h)
    \/ \E ok, wr \in BOOLEAN : ConnectWith(ok, wr, MaxSessions + 1)
    \/ \E n \in {0, RecvMax} : nfresh < MaxFresh /\ Run(n)
    \/ DisconnectCall
    \/ nfresh < MaxFresh /\ Notify(PyStr(S_3))
    \/ \E f \in LifeFrames : inq = <<>> /\ ServerSend(f, MaxFrames, MaxWire)
    \/ Tick(2 * heartbeat, MaxTicks)

SpecLife == Init /\ [][NextLife]_vars

\* C11: disconnect() in Disconnected state changes nothing and calls no
\* handler; the "disconnected" handler is called exactly once in a step that
\* takes the state from Connecting or Connected to Disconnected and in no
\* other step, however many disconnect() calls or timed-out ticks follow.
C11_DisconnectIdempotent ==
    [][ /\ (op' = "disconnect" /\ state = DISCONNECTED)
            => (UNCHANGED objVars /\ trace' = <<>> /\ exc' = "none")
        /\ Len(CallsIn(trace', S_disconnected))
              = (IF state \in Live /\ state' = DISCONNECTED /\ Registered(S_disconnected)
                 THEN 1 ELSE 0) ]_vars

\* disconnect() called again, and a tick after the timeout, in a session
\* that ended with one call of the handler
C11_Witness ==
    /\ op \in {"disconnect", "run"} /\ state = DISCONNECTED /\ trace = <<>>
    /\ Registered(S_disconnected) /\ ndisconnected = 1 /\ nticks > 0


\* lines 157-158: the socket made by connect() is connected, and stays so:
\* no line of the client closes it
SocketOpen == conn # 0 /\ up

\* C12: every way into Disconnected (timeout, sequence id 0, oversize frame,
\* unknown command, rejected login, disconnect()) closes the transport: in
\* Disconnected state after a session the socket of connect() is closed.
C12_DisconnectedClosesTransport ==
    (state = DISCONNECTED /\ nsock > 0) => ~SocketOpen


\* C13: a transport error leaves the client Disconnected and is reported: a
\* connect() that fails (at the socket connect or at the write of the login)
\* raises and leaves the state Disconnected; a run() whose read fails
\* reports the failure and leaves the state Disconnected.
C13_TransportErrorDisconnects ==
    /\ (op = "connect" /\ exc # "none") => state = DISCONNECTED
    /\ (op = "run" /\ conn # 0 /\ ~up) => (state = DISCONNECTED /\ exc # "none")


\* C14: a connect() that succeeds in Disconnected state leaves the state
\* Connecting, the counter at 2 after the login took id 1, lastSend and
\* lastRecv at the current time, lastPing at 0 and the buffer empty, and
\* writes one frame: HardwareLogin, id 1, the auth token as its only field.
C14_ConnectResets ==
    [][ (op' = "connect" /\ state = DISCONNECTED /\ exc' = "none")
          => /\ state' = CONNECTING /\ msg_id' = 2
             /\ lastSend' = clock /\ lastRecv' = clock /\ lastPing' = 0
             /\ bin' = <<>>
             /\ trace' = << [k |-> "send", fresh |-> TRUE,
                              msg |-> <<HW_LOGIN, 0, 1, 0, Len(Auth)>> \o Auth] >> ]_vars

\* a connect() on a second socket, at a later time than the first
C14_Witness ==
    /\ op = "connect" /\ exc = "none" /\ state = CONNECTING /\ nsock = 2
    /\ msg_id = 2 /\ lastRecv > 1 /\ lastPing = 0 /\ bin = <<>>


\* A login frame handed to the transport
IsLogin(e) == e.k \in {"send", "lost"} /\ e.msg[1] \in {LOGIN, HW_LOGIN}

\* C15: no automatic reconnect: from Disconnected state every step that is
\* not connect() (ticks with or without inbound bytes, disconnect(), sends)
\* leaves the state Disconnected and sends no login frame.
C15_NoAutoReconnect ==
    [][ (state = DISCONNECTED /\ op' # "connect")
          => /\ state' = DISCONNECTED
             /\ \A k \in 1..Len(trace') : ~IsLogin(trace'[k]) ]_vars

\* a tick that reads bytes from the server after the session has ended
C15_Witness ==
    /\ op = "run" /\ rx # <<>> /\ state = DISCONNECTED /\ nsock > 0
    /\ ndisconnected = 1 /\ nticks > 0


(***************************************************************************)
(* SpecOrder: the stream of well-formed frames of one connection, cut into  *)
(* reads in every way.                                                      *)
(***************************************************************************)
OrderFrames ==
    { Response(1, SUCCESS), Frame(HW, 2, <<S_vw, S_3, S_42>>),
      Frame(PING, 3, <<>>), Frame(BRIDGE, 4, <<S_vw, S_3>>) }

NextOrder ==
    \/ \E r \in {<<S_V \o S_3, HOne>>, <<S_V \o S_3, HOneRaise>>, <<S_Vstar, HTwo>>} :
          nsock = 0 /\ r[1] \notin DOMAIN callbacks /\ On(r[1], r[2])
    \/ nsock = 0 /\ Connect(TRUE, MaxSessions)
    \/ \E n \in 0..RecvMax : nfresh < MaxFresh /\ Run(n)
    \/ \E f \in OrderFrames : ServerSend(f, MaxFrames, MaxWire)

SpecOrder == Init /\ [][NextOrder]_vars

\* The bytes that the frame at the front of b takes, 0 if it is not all there
FrontLen(b) ==
    IF Len(b) < 5 THEN 0
    ELSE LET h == Unpack(SubSeq(b, 1, 5))
             n == IF h.cmd = RSP THEN 5 ELSE 5 + h.dlen
         IN  IF Len(b) < n THEN 0 ELSE n

\* The headers of the whole frames of a byte stream, in stream order
RECURSIVE Whole(_)
Whole(b) ==
    IF FrontLen(b) = 0 THEN <<>>
    ELSE <<Unpack(SubSeq(b, 1, 5))>> \o Whole(SubSeq(b, FrontLen(b) + 1, Len(b)))

\* The stream without its first n whole frames
RECURSIVE Behind(_, _)
Behind(b, n) ==
    IF n = 0 THEN b ELSE Behind(SubSeq(b, FrontLen(b) + 1, Len(b)), n - 1)

SameFrame(e, h) == e.cmd = h.cmd /\ e.i = h.i

OutPins == {PyInt(3), PyStr(S_3)}
OutVals == {<<>>, <<PyInt(42)>>, <<PyStr(<<233>>), PyInt(1)>>}
OutTexts == {PyStr(S_3), PyStr(<<233, 8364>>)}

NextOut ==
    \/ \E ok \in BOOLEAN : Connect(ok, MaxSessions)
    \/ DisconnectCall
    \/ Tick(Step, MaxTicks)
    \/ \E pin \in OutPins, val \in OutVals : nfresh < MaxFresh /\ VirtualWrite(pin, val)
    \/ \E pin \in OutPins, val \in OutVals :
          nfresh < MaxFresh /\ SetProperty(pin, PyStr(S_dev), val)
    \/ \E pins \in OutVals : nfresh < MaxFresh /\ SyncVirtual(pins)
    \/ \E msg \in OutTexts : nfresh < MaxFresh /\ Notify(msg)
    \/ \E msg \in OutTexts : nfresh < MaxFresh /\ Tweet(msg)
    \/ \E ev \in OutTexts, descr \in {<<>>, <<PyStr(S_3)>>} :
          nfresh < MaxFresh /\ LogEvent(ev, descr)

SpecOut == Init /\ [][NextOut]_vars

\* The fields as text, joined with NUL, in UTF-8
Payload(fields) ==
    Utf8Encode(Join([k \in 1..Len(fields) |-> Str(fields[k])], <<0>>)).b

\* The step, if it returned, wrote one frame: the command, the id that the
\* counter held, the length of the payload, the payload; it moved the
\* counter by one and set lastSend to the current time.
OneFrame(cmd, fields) ==
    exc' = "none"
      => LET pl == Payload(fields)
         IN  /\ trace' = << [k |-> "send", fresh |-> TRUE,
                              msg |-> <<cmd, msg_id \div 256, msg_id % 256,
                                        Len(pl) \div 256, Len(pl) % 256>> \o pl] >>
             /\ msg_id' = (msg_id % MaxMsgId) + 1
             /\ nfresh' = nfresh + 1
             /\ lastSend' = clock

\* C17: each outbound operation writes one frame with a fresh id and sets
\* lastSend: virtual_write sends Hardware ["vw", pin, v...], sync_virtual
\* HardwareSync ["vr", pins...], set_property Property [pin, prop, v...],
\* notify and tweet one field, log_event EventLog [event] or [event, descr];
\* the length field is the length of the NUL-joined payload.
C17_OutboundFrames ==
    [][ /\ \A pin \in OutPins, val \in OutVals :
             /\ VirtualWrite(pin, val) => OneFrame(HW, <<PyStr(S_vw), pin>> \o val)
             /\ SetProperty(pin, PyStr(S_dev), val)
                   => OneFrame(PROPERTY, <<pin, PyStr(S_dev)>> \o val)
        /\ \A pins \in OutVals :
             SyncVirtual(pins) => OneFrame(HW_SYNC, <<PyStr(S_vr)>> \o pins)
        /\ \A msg \in OutTexts :
             /\ Notify(msg) => OneFrame(NOTIFY, <<msg>>)
             /\ Tweet(msg) => OneFrame(TWEET, <<msg>>)
        /\ \A ev \in OutTexts :
             /\ LogEvent(ev, <<>>) => OneFrame(EVENT_LOG, <<ev>>)
             /\ LogEvent(ev, <<PyStr(S_3)>>) => OneFrame(EVENT_LOG, <<ev, PyStr(S_3)>>) ]_vars

\* virtual_write(3, 'é', 1) and log_event('3', '3') after the login
C17_Witness ==
    /\ exc = "none" /\ nfresh > 1
    /\ \/ /\ op = "virtual_write"
          /\ trace = << [k |-> "send", fresh |-> TRUE,
                         msg |-> <<20, 0, nfresh, 0, 9,
                                   118, 119, 0, 51, 0, 195, 169, 0, 49>>] >>
       \/ /\ op = "log_event"
          /\ trace = << [k |-> "send", fresh |-> TRUE,
                         msg |-> <<64, 0, nfresh, 0, 3, 51, 0, 51>>] >>


(***************************************************************************)
(* SpecReg: the handler registry.  A key is registered, registered again    *)
(* with another function, and events for it arrive.                         *)
(***************************************************************************)
RegFrames ==
    { Response(1, SUCCESS), Frame(HW, 2, <<S_vw, S_3, S_42>>),
      Frame(HW, 3, <<S_vr, S_3>>) }

\* the functions registered first and those that replace them
RegFirst == {HOneRaise, HReadRaise}
RegSecond == {HOne, HOneWrite, HPlain}

NextReg ==
    \/ \E h \in RegFirst \cup RegSecond :
          /\ S_V \o S_3 \in DOMAIN callbacks => (callbacks[S_V \o S_3] \in RegFirst /\ h \in RegSecond)
          /\ S_V \o S_3 \notin DOMAIN callbacks => h \in RegFirst
          /\ VIRTUAL_WRITE(PyInt(3), h)
    \/ \E h \in RegFirst \cup RegSecond :
          /\ S_readV \o S_3 \in DOMAIN callbacks
                => (callbacks[S_readV \o S_3] \in RegFirst /\ h \in RegSecond)
          /\ S_readV \o S_3 \notin DOMAIN callbacks => h \in RegFirst
          /\ VIRTUAL_READ(PyInt(3), h)
    \/ S_Vstar \notin DOMAIN callbacks /\ On(S_Vstar, HTwo)
    \/ Connect(TRUE, MaxSessions)
    \/ \E n \in {0, RecvMax} : nfresh < MaxFresh /\ Run(n)
    \/ \E f \in RegFrames : ServerSend(f, MaxFrames, MaxWire)

SpecReg == Init /\ [][NextReg]_vars

RegKeys == {S_V \o S_3, S_readV \o S_3, S_Vstar}

\* The registry after registering g under key: g there, the rest as before
Replaced(key, g) ==
    /\ DOMAIN callbacks' = DOMAIN callbacks \cup {key}
    /\ callbacks'[key] = g
    /\ \A k \in DOMAIN callbacks \ {key} : callbacks'[k] = callbacks[k]

\* C18: registry keys are unique and registering again replaces: after
\* on(key, f) and then on(key, g), or the decorators, the registry holds g
\* under key and the other keys as they were, and an event for key calls g
\* only, never f.
C18_RegistrationReplaces ==
    [][ /\ \A h \in RegFirst \cup RegSecond :
             /\ VIRTUAL_WRITE(PyInt(3), h) => Replaced(S_V \o S_3, h)
             /\ VIRTUAL_READ(PyInt(3), h) => Replaced(S_readV \o S_3, h)
        /\ On(S_Vstar, HTwo) => Replaced(S_Vstar, HTwo)
        /\ \A j \in 1..Len(trace') :
             trace'[j].k = "call" => trace'[j].h = callbacks[trace'[j].event] ]_vars

\* a virtual write routed to the function that replaced the first one, with
\* the wildcard registration still in place
C18_Witness ==
    /\ op = "run" /\ exc = "none"
    /\ Len(CallsIn(trace, S_V \o S_3)) = 1
    /\ CallsIn(trace, S_V \o S_3)[1].h \in RegSecond
    /\ Len(CallsIn(trace, S_Vstar)) = 1

(***************************************************************************)
(* timer.py: class Timer.  start() and every repetition create a            *)
(* threading.Timer, a thread of its own that waits for the period and then  *)
(* runs _run_callback.  The Timer object is shared by these threads without *)
(* a lock, so a step of a thread is one stretch of _run_callback between    *)
(* two points where another thread can run: the start of a thread, and a    *)
(* callback, which is foreign code.  Nothing orders the expiry of a         *)
(* thread against the steps of the thread that created it: the period can   *)
(* be as short as 0.                                                        *)
(***************************************************************************)
MaxCount == 3
MaxThreads == 5

\* A threading.Timer thread: where it is, and the prescaler its loop is at
Thread(pc) == [pc |-> pc, k |-> 0]
At(i, pc) == i \in 1..Len(threads) /\ threads[i].pc = pc
Running(i) == i \in 1..Len(threads) /\ threads[i].pc \notin {"armed", "done"}

\* _create_timer (lines 186-191): a new thread, unless stop() was called
CreateTimer(ths) ==
    IF ~timer.stopping THEN Append(ths, Thread("armed")) ELSE ths

\* start() (lines 253-260), called once
Start ==
    /\ threads = <<>>
    /\ LET c == IF timer.count = None \/ timer.count = 0 THEN 1 ELSE timer.count
       IN  /\ c > 0
           /\ threads' = CreateTimer(threads)
    /\ UNCHANGED <<timer, calls, shots, clientVars, triggerVars, filterVars>>

\* Thread i expires and enters _run_callback (lines 203-209).
Expire(i) ==
    /\ At(i, "armed")
    /\ IF timer.callback = "None"
          \/ (timer.count # None /\ timer.count <= 0)
       THEN /\ threads' = [threads EXCEPT ![i].pc = "done"]
            /\ UNCHANGED timer
       ELSE /\ threads' = [threads EXCEPT ![i].pc = "main"]
            /\ timer' = IF timer.count = 1
                        THEN [timer EXCEPT !.repeate = FALSE] ELSE timer
    /\ UNCHANGED <<calls, shots, clientVars, triggerVars, filterVars>>

\* The record of a callback invocation: the prescale factor (1 for the main
\* callback), the exec_last it was given, the thread, whether it returned
Call(factor, i, ok) ==
    [factor |-> factor, exec_last |-> ~timer.repeate, thread |-> i, ok |-> ok]

\* Lines 212-224: the main callback is called; it returns or raises, and an
\* exception leaves the try block for the except clause and finally.
Main(i, ok) ==
    /\ At(i, "main")
    /\ calls' = Append(calls, Call(1, i, ok))
    /\ threads' = [threads EXCEPT ![i] =
                     IF ok /\ timer.prescalers # <<>>
                     THEN [pc |-> "prescale", k |-> 1]
                     ELSE [pc |-> "finally", k |-> 0]]
    /\ UNCHANGED <<timer, shots, clientVars, triggerVars, filterVars>>

\* Lines 226-243: one round of the loop over the prescalers.
Prescale(i, ok) ==
    /\ At(i, "prescale")
    /\ LET k == threads[i].k
           p == timer.prescalers[k]
           fire == p.counter - 1 <= 0
           last == k >= Len(timer.prescalers)
           \* calling None raises TypeError
           returns == ok /\ p.callback # "None"
       IN  /\ k <= Len(timer.prescalers)
           /\ timer' = [timer EXCEPT !.prescalers[k].counter =
                            IF fire THEN p.factor ELSE p.counter - 1]
           /\ calls' = IF fire THEN Append(calls, Call(p.factor, i, returns))
                       ELSE calls
           /\ threads' = [threads EXCEPT ![i] =
                            IF (fire /\ ~returns) \/ last
                            THEN [pc |-> "finally", k |-> 0]
                            ELSE [pc |-> "prescale", k |-> k + 1]]
    /\ UNCHANGED <<shots, clientVars, triggerVars, filterVars>>

\* Lines 247-249: finally, a repeating timer creates and starts the next
\* thread.
Finally(i, maxThreads) ==
    /\ At(i, "finally")
    /\ IF timer.repeate
       THEN /\ Len(threads) < maxThreads
            /\ threads' = [CreateTimer(threads) EXCEPT ![i].pc = "decrement"]
       ELSE threads' = [threads EXCEPT ![i].pc = "done"]
    /\ UNCHANGED <<timer, calls, shots, clientVars, triggerVars, filterVars>>

\* Lines 250-251: after that, the count is decremented.
Decrement(i) ==
    /\ At(i, "decrement")
    /\ timer' = IF timer.count # None
                THEN [timer EXCEPT !.count = @ - 1] ELSE timer
    /\ threads' = [threads EXCEPT ![i].pc = "done"]
    /\ UNCHANGED <<calls, shots, clientVars, triggerVars, filterVars>>

\* A countdown timer: Timer(period, callback, count=N), then start().
InitShots ==
    /\ InitClient
    /\ \E n \in 1..MaxCount : timer = Timer(n) /\ shots = n
    /\ threads = <<>> /\ calls = <<>>
    /\ TriggerNew /\ FilterNew

NextShots ==
    \/ Start
    \/ \E i \in 1..MaxThreads : Expire(i)
    \/ \E i \in 1..MaxThreads, ok \in BOOLEAN : Main(i, ok)
    \/ \E i \in 1..MaxThreads : Finally(i, MaxThreads)
    \/ \E i \in 1..MaxThreads : Decrement(i)

SpecShots == InitShots /\ [][NextShots]_vars

\* The invocations of the main callback, in order
MainCalls == SelectSeq(calls, LAMBDA c : c.factor = 1)
\* The timer was started and every thread it created has ended
Quiet == threads # <<>> /\ \A i \in 1..Len(threads) : threads[i].pc = "done"

\* C19: a Timer created with count N >= 1 and started invokes its callback
\* exactly N times and then schedules nothing more, with exec_last true on
\* the N-th invocation and false on the earlier ones, however the timer
\* threads interleave: never more than N invocations, the k-th one gets
\* exec_last = (k = N), and when every thread has ended there were N.
C19_ExactlyNShots ==
    /\ Len(MainCalls) <= shots
    /\ \A k \in 1..Len(MainCalls) : MainCalls[k].exec_last = (k = shots)
    /\ Quiet => Len(MainCalls) = shots

(***************************************************************************)
(* Prescalers of a repeating timer.                                         *)
(***************************************************************************)
\* The index of the prescaler of a factor in the list, 0 if there is none
Find(prescalers, factor) ==
    LET hits == {k \in 1..Len(prescalers) : prescalers[k].factor = factor}
    IN  IF hits = {} THEN 0 ELSE CHOOSE k \in hits : \A j \in hits : k <= j

Pop(seq, k) == SubSeq(seq, 1, k - 1) \o SubSeq(seq, k + 1, Len(seq))

\* prescaler(factor, callback) (lines 307-331), called before start()
Prescaler(factor, callback) ==
    /\ threads = <<>>
    /\ LET f == Abs(factor)
           k == Find(timer.prescalers, f)
       IN  timer' =
             IF f < 2 THEN timer
             ELSE IF k > 0
             THEN IF callback = "None"
                  THEN [timer EXCEPT !.prescalers = Pop(@, k)]
                  ELSE [timer EXCEPT !.prescalers[k].callback = callback]
             ELSE [timer EXCEPT !.prescalers =
                     Append(@, [factor |-> f, counter |-> f,
                                callback |-> callback])]
    /\ UNCHANGED <<threads, calls, shots, clientVars, triggerVars, filterVars>>

\* Thread i expires when the thread before it has left _run_callback: a
\* period longer than the time the callbacks take.
ExpireInTurn(i) ==
    /\ \A j \in 1..Len(threads) : ~Running(j)
    /\ Expire(i)

Factors == {1, 2, 3}
PrescalerCallbacks == {"f", "None"}

\* Timer(period, callback) without count, prescalers registered, start().
InitPrescale ==
    /\ InitClient
    /\ timer = Timer(None) /\ shots = None
    /\ threads = <<>> /\ calls = <<>>
    /\ TriggerNew /\ FilterNew

NextPrescale ==
    \/ \E f \in Factors, cb \in PrescalerCallbacks : Prescaler(f, cb)
    \/ Start
    \/ \E i \in 1..MaxThreads : ExpireInTurn(i)
    \/ \E i \in 1..MaxThreads, ok \in BOOLEAN : Main(i, ok)
    \/ \E i \in 1..MaxThreads, ok \in BOOLEAN : Prescale(i, ok)
    \/ \E i \in 1..MaxThreads : Finally(i, MaxThreads)
    \/ \E i \in 1..MaxThreads : Decrement(i)

SpecPrescale == InitPrescale /\ [][NextPrescale]_vars

\* The callback of the prescaler of factor f was invoked at expiry i
InvokedAt(f, i) ==
    \E k \in 1..Len(calls) : calls[k].factor = f /\ calls[k].thread = i
\* Expiry i is over: thread i has left the try block of _run_callback
Over(i) ==
    i \in 1..Len(threads) /\ threads[i].pc \in {"finally", "decrement", "done"}

\* C20: on a repeating timer the callback of a prescaler registered with
\* factor f >= 2 is invoked at the expiries f, 2f, 3f, ... counted from the
\* registration and at no other expiry, whatever the main callback and the
\* callbacks of the other prescalers do (return or raise) in between.  The
\* i-th expiry is the run of the i-th thread.
C20_EveryFthExpiry ==
    \A k \in 1..Len(timer.prescalers) :
        LET f == timer.prescalers[k].factor
        IN  timer.prescalers[k].callback # "None" =>
              \A i \in 1..Len(threads) :
                  /\ InvokedAt(f, i) => i % f = 0
                  /\ (Over(i) /\ i % f = 0) => InvokedAt(f, i)


(***************************************************************************)
(* SpecTrigger: a Trigger of every mode run with every sequence of values.  *)
(***************************************************************************)
MaxValue == 3
Values == 0..MaxValue
TriggerThresholds == {1, 0 - 2}
TriggerCallbacks == {<<"f">>, <<"f", "g">>}

\* The value is on the side of the threshold from which a one-shot trigger
\* must come: below it for UPPER1, above it for LOWER1
FarSide(t, value) ==
    IF t.mode \in {"UPPER", "UPPER1"} THEN value < t.threshold
    ELSE value > t.threshold

\* trigger.run(value)
RunTrigger(value, outs) ==
    /\ LET r == TriggerRun(trigger, value, outs)
       IN  /\ trigger' = r.t
           /\ trun' = [ value |-> value, ret |-> r.ret, calls |-> r.calls,
                        fired |-> trun.fired \/ r.ret,
                        crossed |-> ~r.ret
                                    /\ (trun.crossed \/ FarSide(trigger, value)),
                        again |-> r.ret /\ trun.fired ]
    /\ UNCHANGED <<clientVars, timerVars, filterVars>>

InitTrigger ==
    /\ InitClient
    /\ timer = Timer(None) /\ threads = <<>> /\ calls = <<>> /\ shots = None
    /\ \E th \in TriggerThresholds, cb \in TriggerCallbacks,
          m \in MODE \cup {"upper2"} : trigger = Trigger(th, cb, m)
    /\ trun = NoRun
    /\ FilterNew

NextTrigger ==
    \E v \in Values, outs \in [1..2 -> BOOLEAN] : RunTrigger(v, outs)

SpecTrigger == InitTrigger /\ [][NextTrigger]_vars

\* C21: in mode UPPER1 run(value) executes the callbacks exactly when value
\* >= threshold and the value of the previous run was below the threshold
\* or there was no previous run, LOWER1 is the mirror image (value <=
\* threshold, previous value above it); so between two runs that execute
\* the callbacks there is a run with a value on the far side; and the
\* remembered value becomes the value of the run on every run, whether the
\* callbacks ran, returned or raised.
C21_OneShotTrigger ==
    [][ trigger.mode \in {"UPPER1", "LOWER1"}
          => LET v == trun'.value
                 thr == trigger.threshold
                 hit == IF trigger.mode = "UPPER1" THEN v >= thr ELSE v <= thr
                 came == trun.value = None \/ FarSide(trigger, trun.value)
             IN  /\ trun'.ret = (hit /\ came)
                 /\ Len(trun'.calls)
                      = (IF hit /\ came THEN Len(trigger.callbacks) ELSE 0)
                 /\ trigger'.value = v
                 /\ (trun'.ret /\ trun.fired) => trun.crossed ]_vars

\* an UPPER1 trigger fires a second time, a callback of it raising, after
\* the value sank below the threshold
C21_Witness ==
    /\ trigger.mode = "UPPER1" /\ trun.again
    /\ \E k \in 1..Len(trun.calls) : ~trun.calls[k].ok
    /\ trigger.value = trun.value


(***************************************************************************)
(* SpecFilter: a StatFilterRunning fed with samples and resized.            *)
(***************************************************************************)
MaxBuffer == 5
BufferLens == {1, 3, 4}
Decimals == {None, 1}
Lengths == (0 - MaxBuffer)..MaxBuffer

\* result_med(value)
ResultMedCall(value) ==
    /\ LET r == ResultMed(sfilter, value)
       IN  /\ sfilter' = r.f
           /\ fres' = [op |-> "result_med", arg |-> value, ret |-> r.ret,
                       exc |-> "none"]
    /\ UNCHANGED <<clientVars, timerVars, triggerVars>>

\* set_buffer(n)
SetBufferCall(n) ==
    /\ LET r == SetBuffer(sfilter, n)
       IN  /\ sfilter' = r.f
           /\ fres' = [op |-> "set_buffer", arg |-> n, ret |-> None,
                       exc |-> r.exc]
    /\ UNCHANGED <<clientVars, timerVars, triggerVars>>

InitFilter ==
    /\ InitClient
    /\ timer = Timer(None) /\ threads = <<>> /\ calls = <<>> /\ shots = None
    /\ TriggerNew
    /\ \E n \in BufferLens, d \in Decimals : sfilter = StatFilterRunning(n, d)
    /\ fres = NoResult

NextFilter ==
    \/ \E v \in Values \cup {None} : ResultMedCall(v)
    \/ \E n \in Lengths : SetBufferCall(n)

SpecFilter == InitFilter /\ [][NextFilter]_vars

\* The sample values registered in the buffer, the most recent first
Samples(f) == SubSeq(f.buffer, 1, GetReadings(f))

\* The high median of a non-empty sequence of numbers: the value at index
\* n div 2 (from 0) of the sorted sequence
HighMedian(s) ==
    LET n == Len(s)
        below(m) == Cardinality({i \in 1..n : s[i] < m})
        upto(m) == Cardinality({i \in 1..n : s[i] <= m})
    IN  CHOOSE m \in {s[i] : i \in 1..n} : below(m) <= n \div 2 /\ n \div 2 < upto(m)

\* C22: result_med returns the running median of the sample values
\* registered in the data buffer, the high median when their number is
\* even, for every sequence of accepted input values (and None while none
\* is registered).
C22_RunningMedian ==
    fres.op = "result_med"
      => fres.ret = (IF GetReadings(sfilter) = 0 THEN None
                     ELSE HighMedian(Samples(sfilter)))


\* C23: set_buffer(n) completes without error and leaves get_buffer_len()
\* at |n| made odd, for every buffer length before it and every n, growing
\* and shrinking.
C23_SetBufferLength ==
    fres.op = "set_buffer"
      => /\ fres.exc = "none"
         /\ GetBufferLen(sfilter) = OrOne(Abs(fres.arg))


(***************************************************************************)
(* SpecGate: frames that arrive around the end of a session, ended by the   *)
(* application, by a handler during dispatch, or by the clock.              *)
(***************************************************************************)
GateFrames ==
    { Response(1, SUCCESS), Frame(HW, 2, <<S_vw, S_3>>), Frame(PING, 3, <<>>) }

NextGate ==
    \/ \E h \in {HOne, HOneDisconnect} :
          nsock = 0 /\ ~Registered(S_V \o S_3) /\ On(S_V \o S_3, h)
    \/ nsock = 0 /\ ~Registered(S_Vstar) /\ On(S_Vstar, HTwo)
    \/ nsock = 0 /\ Connect(TRUE, MaxSessions)
    \/ \E n \in {0, RecvMax} : nfresh < MaxFresh /\ Run(n)
    \/ DisconnectCall
    \/ \E f \in GateFrames : ServerSend(f, MaxFrames, MaxWire)
    \/ Tick(2 * heartbeat, MaxTicks)

SpecGate == Init /\ [][NextGate]_vars

\* Something was done with an inbound frame while the state was
\* Disconnected: it was taken from the buffer, routed, or a handler other
\* than "disconnected" was called for it
InDisconnected(e) ==
    /\ e.k \in {"frame", "route", "call"}
    /\ e.st = DISCONNECTED
    /\ e.k = "call" => e.event # S_disconnected

\* C24: frames are ignored while disconnected: no frame is decoded or routed
\* to a handler while the state is Disconnected, also not the frames left in
\* the buffer in the tick in which a handler called disconnect(); and
\* process() in Disconnected state changes no state and sends nothing.
C24_IgnoredWhileDisconnected ==
    [][ /\ \A k \in 1..Len(trace') : ~InDisconnected(trace'[k])
        /\ (op' = "run" /\ state = DISCONNECTED)
              => (UNCHANGED objVars /\ trace' = <<>>) ]_vars


\* C25: lastRecv is updated only when a frame is decoded: a process() call
\* that takes no complete frame from the pending buffer (no new bytes,
\* fewer than 5 bytes buffered, or a header whose payload is incomplete)
\* leaves lastRecv unchanged.
C25_LastRecvOnlyOnFrame ==
    [][ (op' = "run" /\ state \in Live /\ FramesIn(trace') = <<>>)
          => lastRecv' = lastRecv ]_vars


(***************************************************************************)
(* SpecPing: the client's own pings, over clock advances of a tenth of a    *)
(* heartbeat and of more than half a heartbeat.                             *)
(***************************************************************************)
PingFrames == { Response(1, SUCCESS), Frame(PING, 3, <<>>) }

NextPing ==
    \/ Connect(TRUE, MaxSessions)
    \/ \E n \in {0, RecvMax} : nfresh < MaxFresh /\ Run(n)
    \/ \E f \in PingFrames : ServerSend(f, MaxFrames, MaxWire)
    \/ \E d \in {heartbeat \div 10, Step} : Tick(d, MaxTicks + 3)

SpecPing == Init /\ [][NextPing]_vars

\* The Ping frames written in a step
PingsIn(tr) == SelectSeq(SentIn(tr), LAMBDA e : e.msg[1] = PING)

\* C26: a process() call in Connecting or Connected state that does not
\* time out sends a Ping exactly when now - lastPing > H/10 and (now -
\* lastSend > H or now - lastRecv > H): then one Ping, the first thing
\* written, with the id the counter held and no payload, and lastPing
\* becomes now; otherwise no Ping and lastPing stays.  So two Pings of a
\* connection are more than H/10 apart.
C26_PingWhenDue ==
    [][ (op' = "run" /\ state \in Live
         /\ ~(2 * (clock - lastRecv) > 3 * heartbeat))
          => LET due == /\ 10 * (clock - lastPing) > heartbeat
                        /\ \/ clock - lastSend > heartbeat
                           \/ clock - lastRecv > heartbeat
                 pings == PingsIn(trace')
             IN  IF due
                 THEN /\ Len(pings) = 1
                      /\ trace'[1] = [k |-> "send", fresh |-> TRUE,
                                      msg |-> <<PING, msg_id \div 256,
                                                msg_id % 256, 0, 0>>]
                      /\ lastPing' = clock
                 ELSE pings = <<>> /\ lastPing' = lastPing ]_vars

\* the second Ping of a connection, after the login (id 1), the info frame
\* (id 2) and the first Ping (id 3)
C26_Witness ==
    /\ op = "run" /\ state = CONNECTED /\ lastPing = clock
    /\ Len(PingsIn(trace)) = 1 /\ IdOf(PingsIn(trace)[1]) = 4


\* C27: the heartbeat timeout comes first in a tick and ends it: a
\* process() call in Connecting or Connected state with now - lastRecv >
\* 1.5 H leaves the state Disconnected, sends no Ping or other frame, does
\* not append the bytes passed to it to the pending buffer, decodes no
\* frame and calls no handler but "disconnected".
C27_TimeoutFirst ==
    [][ (op' = "run" /\ state \in Live
         /\ 2 * (clock - lastRecv) > 3 * heartbeat)
          => /\ state' = DISCONNECTED
             /\ bin' = bin
             /\ Len(trace') = (IF Registered(S_disconnected) THEN 1 ELSE 0)
             /\ \A k \in 1..Len(trace') :
                   trace'[k].k = "call" /\ trace'[k].event = S_disconnected ]_vars

\* a tick after the timeout that was given the bytes of a login reply: they
\* are not in the buffer and the handler was called
C27_Witness ==
    /\ op = "run" /\ rx = Response(1, SUCCESS) /\ bin = <<>>
    /\ state = DISCONNECTED /\ Len(CallsIn(trace, S_disconnected)) = 1
    /\ FramesIn(trace) = <<>>


(***************************************************************************)
(* SpecPong: Ping frames from the server, with and without payload.         *)
(***************************************************************************)
PongFrames ==
    { Response(1, SUCCESS), Frame(PING, 3, <<>>), Frame(PING, 258, <<S_3>>),
      \* a payload that is not UTF-8
      RawFrame(PING, 5, 1, <<255>>) }

NextPong ==
    \/ nsock = 0 /\ ~Registered(S_Vstar) /\ On(S_Vstar, HTwo)
    \/ Connect(TRUE, MaxSessions)
    \/ \E n \in {0, RecvMax} : nfresh < MaxFresh /\ Run(n)
    \/ \E f \in PongFrames : ServerSend(f, MaxFrames, MaxWire)

SpecPong == Init /\ [][NextPong]_vars

\* The k-th thing done in a step is taking a Ping frame from the buffer
IsPing(tr, k) == tr[k].k = "frame" /\ tr[k].cmd = PING

\* The reply to a Ping with sequence id i: a Response with that id, 200 in
\* the length field, no payload, written without taking a fresh id
Pong(i) ==
    [k |-> "send", fresh |-> FALSE,
     msg |-> <<RSP, i \div 256, i % 256, SUCCESS \div 256, SUCCESS % 256>>]

\* C28: every inbound Ping frame with a sequence id i # 0 is answered before
\* any later frame is processed with exactly one Response (id i, status 200
\* in the length field, no payload); the answer takes no fresh id and calls
\* no handler.
C28_PingAnswered ==
    [][ op' = "run"
          => /\ \A k \in 1..Len(trace') :
                   IsPing(trace', k)
                     => /\ k + 2 <= Len(trace')
                        /\ trace'[k + 1].k = "route"
                        /\ trace'[k + 2] = Pong(trace'[k].i)
             /\ (\A k \in 1..Len(trace') :
                    trace'[k].k = "frame" => trace'[k].cmd \in {PING, RSP})
                  => (CallsIn(trace', S_Vstar) = <<>>
                      /\ (state = CONNECTED => msg_id' = msg_id)) ]_vars


(***************************************************************************)
(* SpecFatal: headers that end the session: a payload length above the      *)
(* input buffer, and sequence id 0.                                         *)
(***************************************************************************)
\* The frame f with its sequence id set to 0
ZeroId(f) == <<f[1], 0, 0>> \o SubSeq(f, 4, Len(f))

FatalFrames ==
    { Response(1, SUCCESS), Frame(HW, 2, <<S_vw, S_3, S_42>>),
      \* headers that announce more than the buffer holds
      RawFrame(HW, 9, buffin + 1, <<>>), RawFrame(PING, 9, 2 * buffin, <<>>),
      \* sequence id 0: a Response, a whole write to V3, an unknown command
      \* with a length above the buffer
      Response(0, SUCCESS), ZeroId(Frame(HW, 2, <<S_vw, S_3, S_42>>)),
      RawFrame(NOTIFY, 0, buffin + 1, <<>>) }

NextFatal ==
    \/ \E h \in {HPlain, HPlainRaise} :
          nsock = 0 /\ ~Registered(S_disconnected) /\ On(S_disconnected, h)
    \/ nsock = 0 /\ ~Registered(S_V \o S_3) /\ On(S_V \o S_3, HOne)
    \/ nsock = 0 /\ Connect(TRUE, MaxSessions)
    \/ \E n \in {0, RecvMax} : nfresh < MaxFresh /\ Run(n)
    \/ \E f \in FatalFrames : ServerSend(f, MaxFrames, MaxWire)

SpecFatal == Init /\ [][NextFatal]_vars

\* The buffer b begins with a whole header
HasHeader(b) == Len(b) >= 5
Front(b) == Unpack(SubSeq(b, 1, 5))

\* The buffer begins with the header of a frame that is not a Response, has
\* a sequence id, and announces a payload longer than buffin
Oversize(b) ==
    /\ HasHeader(b)
    /\ Front(b).cmd # RSP /\ Front(b).i # 0 /\ Front(b).dlen > buffin

\* The step did nothing but end the session: one call of the "disconnected"
\* handler if one is registered, no other call, no frame taken or routed
OnlyDisconnected ==
    /\ state' = DISCONNECTED
    /\ FramesIn(trace') = <<>> /\ RoutedIn(trace') = <<>>
    /\ Len(CallsIn(trace', S_disconnected))
          = (IF Registered(S_disconnected) THEN 1 ELSE 0)
    /\ \A k \in 1..Len(trace') :
          trace'[k].k = "call" => trace'[k].event = S_disconnected

\* C29: a header of a frame that is not a Response and announces a payload
\* longer than buffin ends the session: the state becomes Disconnected,
\* "disconnected" is called once, and the frame is neither taken from the
\* buffer nor routed to a handler.
C29_OversizeFatal ==
    [][ (op' = "run" /\ state \in Live)
          => /\ Oversize(bin \o rx') => (OnlyDisconnected /\ bin' = bin \o rx')
             /\ (\E k \in 1..Len(trace') :
                    trace'[k].k = "log" /\ trace'[k].text = "Command too big")
                  => (state' = DISCONNECTED /\ HasHeader(bin')
                      /\ TooBig(Front(bin').dlen)) ]_vars

\* A Connected session ended by the header of a Hardware frame of buffin + 1
\* bytes, with a "disconnected" handler and a handler for V3 registered
C29_Witness ==
    /\ op = "run" /\ state = DISCONNECTED
    /\ bin = RawFrame(HW, 9, buffin + 1, <<>>)
    /\ Registered(S_V \o S_3)
    \* the login and the info frame were written: the session was Connected
    /\ nfresh = 2
    /\ Len(trace) = 2 /\ trace[1].k = "log"
    /\ trace[2].k = "call" /\ trace[2].event = S_disconnected

StatesIn(before, tr, after) ==
    LET seen == SelectSeq(tr, LAMBDA e : e.k \in {"frame", "route", "call"})
    IN  <<before>> \o [k \in 1..Len(seen) |-> seen[k].st] \o <<after>>

\* The changes of state that the class makes
Transitions ==
    { <<DISCONNECTED, CONNECTING>>, <<CONNECTING, CONNECTED>>,
      <<CONNECTING, DISCONNECTED>>, <<CONNECTED, DISCONNECTED>> }

\* C31: the state is always one of Disconnected, Connecting, Connected; it
\* changes only from Disconnected to Connecting (in connect() only), from
\* Connecting to Connected (only when a Response with id 1 and status 200 is
\* taken), from Connecting to Disconnected and from Connected to
\* Disconnected, within a call as well as from call to call.
C31_StateMachine ==
    [][ LET path == StatesIn(state, trace', state')
        IN  /\ \A k \in 1..Len(path) : path[k] \in {DISCONNECTED, CONNECTING, CONNECTED}
            /\ \A k \in 1..(Len(path) - 1) :
                  path[k] # path[k + 1] => <<path[k], path[k + 1]>> \in Transitions
            /\ (\E k \in 1..(Len(path) - 1) :
                   path[k] = DISCONNECTED /\ path[k + 1] = CONNECTING)
                 => op' = "connect"
            /\ (\E k \in 1..(Len(path) - 1) :
                   path[k] = CONNECTING /\ path[k + 1] = CONNECTED)
                 => (op' = "run" /\ \E k \in 1..Len(trace') : IsAcceptance(trace'[k])) ]_vars

\* A second session became Connected after the first was ended
C31_Witness ==
    /\ op = "run" /\ state = CONNECTED /\ Accepted
    /\ nsock = 2


(***************************************************************************)
(* SpecEnter: the entry into Connected state, with "connected" handlers     *)
(* that return, raise TypeError, and end the session.                       *)
(***************************************************************************)
EnterHandlers == {HKw, HPlain, HKwTypeError, HKwDisconnect, HKwDisconnectTypeError}

NextEnter ==
    \/ \E h \in EnterHandlers :
          nsock = 0 /\ ~Registered(S_connected) /\ On(S_connected, h)
    \/ nsock = 0 /\ ~Registered(S_disconnected) /\ On(S_disconnected, HPlain)
    \/ Connect(TRUE, MaxSessions + 1)
    \/ \E n \in {0, RecvMax} : nfresh < MaxFresh /\ Run(n)
    \/ DisconnectCall
    \/ \E f \in {Response(1, SUCCESS), Response(2, SUCCESS)} :
          ServerSend(f, MaxFrames, MaxWire)

SpecEnter == Init /\ [][NextEnter]_vars

\* The info frame written with sequence id i
InfoFrame(i) ==
    Encode(INTERNAL, i,
           <<PyStr(S_ver), PyStr(VERSION), PyStr(S_hbeat), PyInt(heartbeat \div 1000),
             PyStr(S_buffin), PyInt(buffin), PyStr(S_dev), PyStr(S_python)>>).b

\* C32: on entering Connected the info frame (ver, version, h-beat,
\* heartbeat in seconds, buff-in, buffer size, dev, python) is written once,
\* with a fresh sequence id, after the state is set and before the
\* "connected" handler is called; every call of the handler finds the state
\* Connected.
C32_EnterConnected ==
    [][ \A k \in 1..Len(trace') :
           (op' = "run" /\ IsAcceptance(trace'[k]))
             => /\ k < Len(trace')
                /\ trace'[k + 1] = [k |-> "send", fresh |-> TRUE, msg |-> InfoFrame(msg_id)]
                /\ \A j \in 1..Len(trace') :
                      /\ (trace'[j].k = "send" /\ j # k + 1)
                            => trace'[j].msg[1] # INTERNAL
                      /\ (trace'[j].k = "call" /\ trace'[j].event = S_connected)
                            => (j > k + 1 /\ trace'[j].st = CONNECTED) ]_vars


(***************************************************************************)
(* SpecResp: Responses that are not the reply to the login.                 *)
(***************************************************************************)
RespFrames ==
    { Response(1, SUCCESS), Response(1, INVALID_TOKEN),
      Response(2, INVALID_TOKEN), Response(2, SUCCESS),
      \* a status that would be a short payload length
      Response(3, 2),
      \* sequence id 0
      Response(0, SUCCESS) }

NextResp ==
    \/ nsock = 0 /\ ~Registered(S_connected) /\ On(S_connected, HKw)
    \/ nsock = 0 /\ ~Registered(S_disconnected) /\ On(S_disconnected, HPlain)
    \/ nsock = 0 /\ Connect(TRUE, MaxSessions)
    \/ \E n \in {0, RecvMax} : nfresh < MaxFresh /\ Run(n)
    \/ \E f \in RespFrames : ServerSend(f, MaxFrames + 1, MaxWire)
    \/ Tick(Step, MaxTicks)

SpecResp == Init /\ [][NextResp]_vars

\* The buffer b begins with a Response that is not the awaited reply to the
\* login, and holds no whole header after it
StrayResponse(b) ==
    /\ HasHeader(b) /\ Len(b) < 10
    /\ Front(b).cmd = RSP
    /\ ~(state = CONNECTING /\ Front(b).i = 1)

\* The step took the five bytes of one Response from the buffer and set
\* lastRecv; it called no handler, wrote nothing but a Ping that was due,
\* and left the state as it was
ResponseIgnored(b) ==
    /\ bin' = SubSeq(b, 6, Len(b))
    /\ lastRecv' = clock
    /\ state' = state /\ exc' = "none"
    /\ Len(FramesIn(trace')) = 1
    /\ \A k \in 1..Len(trace') :
          /\ trace'[k].k \in {"frame", "send"}
          /\ trace'[k].k = "send" => (PingDue(Self, clock) /\ trace'[k].msg[1] = PING)

\* C33 as stated: every Response that is not the awaited reply to the login,
\* whatever its sequence id and status, is ignored.
C33_AnyStrayResponseIgnored ==
    [][ (op' = "run" /\ state \in Live /\ ~TimedOut(Self, clock)
         /\ StrayResponse(bin \o rx'))
          => ResponseIgnored(bin \o rx') ]_vars

\* C33: a Response with a sequence id other than 0 that is not the awaited
\* reply to the login (any in Connected state, one with an id other than 1
\* in Connecting state) is ignored whatever its status: exactly its five
\* bytes leave the buffer, lastRecv is set, and nothing else changes: no
\* change of state, no handler call, no frame written for it.
C33_StrayResponseIgnored ==
    [][ (op' = "run" /\ state \in Live /\ ~TimedOut(Self, clock)
         /\ StrayResponse(bin \o rx') /\ Front(bin \o rx').i # 0)
          => ResponseIgnored(bin \o rx') ]_vars

\* In Connected state a Response with id 3 and status 2 was taken at a later
\* time than the last frame, and the three bytes behind it stayed
C33_Witness ==
    /\ op = "run" /\ state = CONNECTED /\ exc = "none"
    /\ rx = Response(3, 2) \o <<RSP, 0, 2>>
    /\ bin = <<RSP, 0, 2>>
    /\ Len(trace) = 1 /\ trace[1].k = "frame" /\ trace[1].st = CONNECTED
    /\ lastRecv = clock /\ clock > 0


(***************************************************************************)
(* What a session leaves to the next                                        *)
(***************************************************************************)
\* The bytes that the frames taken in a step had in the buffer
RECURSIVE Taken(_)
Taken(frames) ==
    IF frames = <<>> THEN 0
    ELSE 5 + (IF Head(frames).cmd = RSP THEN 0 ELSE Head(frames).dlen)
           + Taken(Tail(frames))

\* C34: a session leaves nothing to the next but the registry: a connect()
\* that succeeds in Disconnected state, whatever bytes the buffer holds and
\* whatever the counter is, empties the buffer and sends the login with
\* id 1; from then on the frames decoded are made of bytes read in the new
\* session; connect(), process() and disconnect() (and the outbound
\* operations) leave every entry of the registry as it was.
C34_SessionsDoNotLeak ==
    [][ /\ (op' = "connect" /\ state = DISCONNECTED /\ exc' = "none")
            => /\ bin' = <<>> /\ msg_id' = 2
               /\ Len(trace') = 1 /\ trace'[1].k = "send"
               /\ SubSeq(trace'[1].msg, 1, 3) = <<HW_LOGIN, 0, 1>>
        /\ (op' = "run" /\ state \in Live /\ ~TimedOut(Self, clock))
            => Taken(FramesIn(trace')) + Len(bin') = Len(bin) + Len(rx')
        /\ op' \in {"connect", "run", "disconnect", "notify"}
            => callbacks' = callbacks ]_vars

\* The second session became Connected with the registry of the first,
\* which had ended with a call of the "disconnected" handler
C34_Witness ==
    /\ op = "run" /\ nsock = 2 /\ state = CONNECTED /\ Accepted
    /\ bin = <<>> /\ Registered(S_disconnected) /\ nframes = 2


(***************************************************************************)
(* SpecLimit: payload lengths at the limit of the input buffer.             *)
(***************************************************************************)
\* A payload of n letters
Letters(n) == [k \in 1..n |-> 97]

LimitFrames ==
    { Response(1, SUCCESS),
      \* the longest payload accepted
      RawFrame(HW, 2, buffin - 1, Letters(buffin - 1)),
      \* a payload of buffin bytes: the header alone, and the whole frame
      RawFrame(HW, 3, buffin, <<>>),
      RawFrame(BRIDGE, 4, buffin, Letters(buffin)) }

NextLimit ==
    \/ nsock = 0 /\ ~Registered(S_disconnected) /\ On(S_disconnected, HPlain)
    \/ nsock = 0 /\ Connect(TRUE, MaxSessions)
    \/ \E n \in {0, 1, RecvMax} : nfresh < MaxFresh /\ Run(n)
    \/ \E f \in LimitFrames : ServerSend(f, MaxFrames, MaxWire)

SpecLimit == Init /\ [][NextLimit]_vars

\* C35: the test for a frame too big is made on the header alone and
\* includes the limit: once the five bytes of a header that is not a
\* Response and announces buffin bytes or more are in the buffer, with or
\* without payload bytes behind them, the state becomes Disconnected and the
\* frame is not taken; every frame taken that is not a Response has a length
\* below buffin, and a frame of buffin - 1 payload bytes is taken once whole.
C35_InclusiveLimit ==
    [][ (op' = "run" /\ state \in Live)
          => /\ (HasHeader(bin \o rx') /\ Front(bin \o rx').cmd # RSP
                 /\ Front(bin \o rx').i # 0 /\ Front(bin \o rx').dlen >= buffin)
                  => /\ state' = DISCONNECTED
                     /\ FramesIn(trace') = <<>>
                     /\ bin' = bin \o rx'
             /\ \A k \in 1..Len(trace') :
                   (trace'[k].k = "frame" /\ trace'[k].cmd # RSP)
                      => trace'[k].dlen < buffin
             /\ bin \o rx' = RawFrame(HW, 2, buffin - 1, Letters(buffin - 1))
                  => (Len(FramesIn(trace')) = 1 /\ bin' = <<>> /\ state' = state) ]_vars

\* The header of a frame of exactly buffin payload bytes ended a Connected
\* session when its fifth byte arrived, no payload byte being there
C35_Witness ==
    /\ op = "run" /\ state = DISCONNECTED /\ nfresh = 2
    /\ bin = RawFrame(HW, 3, buffin, <<>>) /\ Len(rx) = 1
    /\ Len(CallsIn(trace, S_disconnected)) = 1


(***************************************************************************)
(* SpecAgain: connect() called again while a session is open.               *)
(***************************************************************************)
NextAgain ==
    \/ \E ok \in BOOLEAN : Connect(ok, MaxSessions + 1)
    \/ \E n \in {0, RecvMax} : nfresh < MaxFresh /\ Run(n)
    \/ nfresh < MaxFresh /\ Notify(PyStr(S_3))
    \/ \E f \in {Response(1, SUCCESS), Frame(HW, 2, <<S_vw, S_3, S_42>>)} :
          ServerSend(f, MaxFrames, MaxWire)
    \/ Tick(Step, MaxTicks)

SpecAgain == Init /\ [][NextAgain]_vars



\* C36: connect() in Connecting or Connected state writes no login and
\* leaves the state, the counter, lastRecv, lastSend, lastPing and the
\* buffer as they were, but self.conn is a socket opened by this call, on
\* which nothing was written; the socket used before is not the one in use
\* any more.
C36_ConnectInSession ==
    [][ (op' = "connect" /\ state \in Live)
          => /\ state' = state /\ msg_id' = msg_id /\ bin' = bin
             /\ lastRecv' = lastRecv /\ lastSend' = lastSend /\ lastPing' = lastPing
             /\ \A k \in 1..Len(trace') : trace'[k].k \notin {"send", "lost"}
             /\ nsock' = nsock + 1
             /\ conn' = nsock' /\ conn' # conn
             /\ inq' = <<>> ]_vars

\* connect() was called in Connected state, with bytes pending in the buffer
C36_Witness ==
    /\ op = "connect" /\ exc = "none" /\ state = CONNECTED
    /\ nsock = 2 /\ conn = 2 /\ trace = <<>>
    /\ msg_id = 4 /\ bin # <<>> /\ lastSend > lastRecv


(***************************************************************************)
(* SpecEarly: frames that arrive before the reply to the login.             *)
(***************************************************************************)
EarlyFrames ==
    { Response(1, SUCCESS), Response(1, INVALID_TOKEN),
      Frame(HW, 2, <<S_vw, S_3, S_42>>), Frame(BRIDGE, 3, <<S_vw, S_3, S_42>>),
      Frame(INTERNAL, 4, <<S_vw, S_3, S_42>>), Frame(PING, 5, <<>>) }

EarlyRegs ==
    { <<S_V \o S_3, HOne>>, <<S_Vstar, HTwo>>, <<S_int \o S_3, HOne>> }

NextEarly ==
    \/ \E r \in EarlyRegs : nsock = 0 /\ r[1] \notin DOMAIN callbacks /\ On(r[1], r[2])
    \/ nsock = 0 /\ Connect(TRUE, MaxSessions)
    \/ \E n \in {0, 1, RecvMax} : nfresh < MaxFresh /\ Run(n)
    \/ \E f \in EarlyFrames : ServerSend(f, MaxFrames, MaxWire)

SpecEarly == Init /\ [][NextEarly]_vars

\* The calls that the events from k to the next frame make of the handler
\* of an event are: one with the arguments args if it is registered, none
\* if it is not
CallsOnce(tr, k, event, args) ==
    LET c == CallsIn(Segment(tr, k), event)
    IN  IF Registered(event) THEN Len(c) = 1 /\ c[1].args = args
        ELSE c = <<>>

\* What is done with the frame routed at event k of a step
Dispatched(tr, k) ==
    LET e == tr[k]
    IN  CASE e.cmd = PING ->
               k < Len(tr) /\ tr[k + 1] = Pong(e.i)
          [] e.cmd \in {HW, BRIDGE} ->
               /\ CallsOnce(tr, k, S_V \o e.args[2], <<SubSeq(e.args, 3, Len(e.args))>>)
               /\ CallsOnce(tr, k, S_Vstar, <<e.args[2], SubSeq(e.args, 3, Len(e.args))>>)
          [] e.cmd = INTERNAL ->
               CallsOnce(tr, k, S_int \o e.args[2], <<SubSeq(e.args, 3, Len(e.args))>>)

\* C37: dispatch does not wait for the login to be accepted: a whole
\* Hardware, Bridge, Internal or Ping frame that is in front of the buffer
\* in Connecting state is taken and routed in that tick, and every frame
\* routed in Connecting state calls the registered handlers, or is answered
\* if it is a Ping, as one routed in Connected state is.
C37_DispatchBeforeLogin ==
    [][ op' = "run"
          => /\ (state = CONNECTING /\ HoldsFrame(bin \o rx')
                 /\ Front(bin \o rx').cmd # RSP)
                  => /\ Len(trace') >= 2
                     /\ trace'[1].k = "frame" /\ trace'[2].k = "route"
                     /\ trace'[2].st = CONNECTING
             /\ \A k \in 1..Len(trace') :
                   trace'[k].k = "route" => Dispatched(trace', k) ]_vars

\* In one tick of a Connecting session a virtual write was routed to the
\* handlers of V3 and V* and then the login was rejected
C37_Witness ==
    /\ op = "run" /\ state = DISCONNECTED /\ Rejected
    /\ Len(CallsIn(trace, S_V \o S_3)) = 1 /\ CallsIn(trace, S_V \o S_3)[1].st = CONNECTING
    /\ Len(CallsIn(trace, S_Vstar)) = 1


\* The outbound operations
OutOps == {"virtual_write", "set_property", "sync_virtual", "notify", "tweet", "log_event"}

\* C38: the outbound operations do not look at the state: called after a
\* session has ended, each of virtual_write, sync_virtual, set_property,
\* notify, tweet and log_event hands one frame with the counter's id to the
\* socket of the ended session, moves the counter by one, sets lastSend to
\* the current time and leaves the state Disconnected.
C38_OutboundWhenDisconnected ==
    [][ (op' \in OutOps /\ state = DISCONNECTED /\ msg_id # NoAttr)
          => /\ state' = DISCONNECTED
             /\ conn' = conn
             /\ Len(trace') = 1
             /\ trace'[1].k = (IF up THEN "send" ELSE "lost")
             /\ trace'[1].fresh
             /\ SubSeq(trace'[1].msg, 2, 3) = <<msg_id \div 256, msg_id % 256>>
             /\ msg_id' = (msg_id % MaxMsgId) + 1
             /\ lastSend' = clock ]_vars

\* tweet() wrote a frame with id 3 after the session was ended by
\* disconnect(), at a later time than the login
C38_Witness ==
    /\ op = "tweet" /\ state = DISCONNECTED /\ exc = "none" /\ up
    /\ Len(trace) = 1 /\ trace[1].k = "send" /\ trace[1].msg[1] = TWEET
    /\ msg_id = 4 /\ lastSend = clock /\ clock > 1


\* The buffer b holds the beginning of one frame and no whole frame: fewer
\* than 5 bytes, or the header of a frame that is not a Response, with a
\* sequence id and a length below buffin, and not all of its payload
NoWholeFrame(b) ==
    \/ Len(b) < 5
    \/ /\ Front(b).cmd # RSP /\ Front(b).i # 0
       /\ Front(b).dlen < buffin
       /\ Len(b) < 5 + Front(b).dlen

\* C39: when process() has returned normally and the state is Connecting or
\* Connected, the buffer holds no whole frame: it is shorter than 5 bytes,
\* or begins with the header of a frame that is not a Response, has a
\* sequence id other than 0 and a length L < buffin, with fewer than 5 + L
\* bytes there; so it is never longer than buffin + 3 bytes.
C39_BoundedBuffer ==
    (op = "run" /\ exc = "none" /\ state \in {CONNECTING, CONNECTED})
        => (NoWholeFrame(bin) /\ Len(bin) <= buffin + 3)

\* All but the last byte of a frame of buffin - 1 payload bytes are pending
C39_Witness ==
    /\ op = "run" /\ exc = "none" /\ state = CONNECTED
    /\ Len(bin) = buffin + 3 /\ Front(bin).dlen = buffin - 1


(***************************************************************************)
(* SpecStop: stop() called from the application's thread at any moment of   *)
(* the timer threads.  _run_callback's finally clause is taken in the steps *)
(* another thread can come between: the test of _stopping, and the creation *)
(* and start of the next threading.Timer.                                   *)
(***************************************************************************)
\* self._timer: the thread created last (0: None)
TimerThread == Len(threads)

\* Lines 248 and 188: finally, a repeating timer enters _create_timer and
\* tests _stopping.
FinallyTest(i) ==
    /\ At(i, "finally")
    /\ threads' = [threads EXCEPT ![i].pc =
                     IF ~timer.repeate THEN "done"
                     ELSE IF ~timer.stopping THEN "create"
                     ELSE "decrement"]
    /\ UNCHANGED <<timer, calls, shots, clientVars, triggerVars, filterVars>>

\* Lines 189-191: the next threading.Timer is created, stored in
\* self._timer and started.
Create(i, maxThreads) ==
    /\ At(i, "create")
    /\ Len(threads) < maxThreads
    /\ threads' = [Append(threads, Thread("armed")) EXCEPT ![i].pc = "decrement"]
    /\ UNCHANGED <<timer, calls, shots, clientVars, triggerVars, filterVars>>

\* stop() (lines 262-267): the flag is set and self._timer is cancelled,
\* which stops a threading.Timer that is still waiting and does nothing to
\* one whose function has been entered.
Stop ==
    /\ ~timer.stopping
    /\ timer' = [timer EXCEPT !.stopping = TRUE]
    /\ threads' = IF TimerThread > 0 /\ At(TimerThread, "armed")
                  THEN [threads EXCEPT ![TimerThread].pc = "cancelled"]
                  ELSE threads
    /\ UNCHANGED <<calls, shots, clientVars, triggerVars, filterVars>>

\* A periodic or a countdown timer, then start().
InitStop ==
    /\ InitClient
    /\ \E n \in {None} \cup 2..MaxCount : timer = Timer(n) /\ shots = n
    /\ threads = <<>> /\ calls = <<>>
    /\ TriggerNew /\ FilterNew

NextStop ==
    \/ Start
    \/ Stop
    \/ \E i \in 1..MaxThreads : Expire(i)
    \/ \E i \in 1..MaxThreads, ok \in BOOLEAN : Main(i, ok)
    \/ \E i \in 1..MaxThreads : FinallyTest(i)
    \/ \E i \in 1..MaxThreads : Create(i, MaxThreads)
    \/ \E i \in 1..MaxThreads : Decrement(i)

SpecStop == InitStop /\ [][NextStop]_vars

\* C40: stop() is final: once it has returned, no threading.Timer is
\* created or started and no callback is called, wherever the timer thread
\* was in _run_callback and _create_timer when stop() ran.
C40_StopIsFinal ==
    [][ timer.stopping
          => /\ Len(threads') = Len(threads)
             /\ Len(calls') = Len(calls) ]_vars
====
